---- MODULE Spec2Model ----
(***************************************************************************)
(* Model of decksmith's card rendering core: CardBuilder (card_builder.py), *)
(* the refactored renderers (renderers/*.py), apply_anchor (utils.py) and   *)
(* DeckBuilder (deck_builder.py).                                           *)
(*                                                                          *)
(* A Python dict is a record plus the set `keys` of the keys it holds; a    *)
(* field whose key is absent holds the default of EmptyElement.  A scalar   *)
(* of the document is a tagged value: I(n) an integer, S(chars) a string    *)
(* as a sequence of one-character strings.  The raster canvas is the        *)
(* sequence of draw operations applied to it.                               *)
(***************************************************************************)
EXTENDS Integers, Sequences, FiniteSets, TLC

VARIABLES
    doc,        \* the specification document as parsed from disk (never assigned)
    specs,      \* heap of specification objects: 0 is DeckBuilder._spec_cache, r>0 row r's resolved spec
    cards,      \* one CardBuilder per card number
    engine,     \* "builder": card_builder.py draw methods; "renderers": renderers/*.py
    deck,       \* DeckBuilder.build_deck control state
    files,      \* card numbers n whose card_<n>.png has been written
    log,        \* logger.error / logger.info records
    cli,        \* the `decksmith build` command: its options, position, output and exit status
    call        \* one call of a library function: its arguments and what it returned

vars == <<doc, specs, cards, engine, deck, files, log, cli, call>>

----------------------------------------------------------------------------
(* Bounds *)
MaxElems == 3       \* longest element list of a rendered document
NRows == 2          \* data rows of the CSV table (and CardBuilder slots)
DeckMaxElems == 2   \* longest element list of a deck document
BuildMaxElems == 3  \* longest element list of a build checked for termination
CliMaxElems == 1    \* longest element list of a document built from the command line
MacroMaxParts == 3  \* pieces (tokens, letters, blanks) of a string given to resolve_macros
MacroMaxItems == 2  \* entries of a list or mapping given to resolve_macros
AnchorMaxCoord == 3 \* largest absolute coordinate of a box given to apply_anchor
PipeMaxLen == 3     \* most items of a filters mapping
WrapMaxParts == 4   \* pieces (words, blanks, newlines) of a text given to get_wrapped_text
CropMaxSide == 3    \* longest side of an image given to a crop filter

Rows == 1..NRows

----------------------------------------------------------------------------
(* Values *)
I(n) == [k |-> "int", n |-> n, s |-> <<>>]
S(chars) == [k |-> "str", n |-> 0, s |-> chars]

IsInt(v) == v.k = "int"
PosInts(p) == Len(p) = 2 /\ IsInt(p[1]) /\ IsInt(p[2])
XY(p) == <<p[1].n, p[2].n>>
Pt(xy) == <<I(xy[1]), I(xy[2])>>

(* dict helpers *)
EmptyElement ==
    [keys |-> {}, type |-> "", id |-> "", position |-> <<>>, relative_to |-> <<>>,
     anchor |-> "", size |-> <<>>, radius |-> 0, sides |-> 0, points |-> <<>>,
     path |-> "", filters |-> <<>>, text |-> S(<<>>), color |-> "", fill |-> "", font |-> ""]

Has(d, key) == key \in d.keys
With(d, key, value) == [d EXCEPT !.keys = @ \cup {key}, ![key] = value]
Pop(d, key) == [d EXCEPT !.keys = @ \ {key}, ![key] = EmptyElement[key]]
(* the variant keeps the value a key already has *)
Put_if_absent(m, key, value) ==
    [x \in DOMAIN m \cup {key} |-> IF x \in DOMAIN m THEN m[x] ELSE value]

Put(m, key, value) == [x \in DOMAIN m \cup {key} |-> IF x = key THEN value ELSE m[x]]

----------------------------------------------------------------------------
(* utils.apply_anchor *)
Anchors ==
    {"top-left", "top-center", "top-right", "middle-left", "center",
     "middle-right", "bottom-left", "bottom-center", "bottom-right"}

apply_anchor_raises(size, anchor) ==
    \/ Len(size) \notin {2, 4}
    \/ anchor \notin Anchors

(* the variant reads a 4-tuple as (x, y, width, height) *)
apply_anchor_xywh(size, anchor) ==
    LET position_horizontal == IF Len(size) = 2 THEN 0 ELSE size[1]
        position_vertical == IF Len(size) = 2 THEN 0 ELSE size[2]
        width == IF Len(size) = 2 THEN size[1] ELSE size[3]
        height == IF Len(size) = 2 THEN size[2] ELSE size[4]
    IN <<position_horizontal
            + (CASE anchor \in {"top-left", "middle-left", "bottom-left"} -> 0
                 [] anchor \in {"top-center", "center", "bottom-center"} -> width \div 2
                 [] OTHER -> width),
         position_vertical
            + (CASE anchor \in {"top-left", "top-center", "top-right"} -> 0
                 [] anchor \in {"middle-left", "center", "middle-right"} -> height \div 2
                 [] OTHER -> height)>>

apply_anchor(size, anchor) ==
    LET position_horizontal == IF Len(size) = 2 THEN 0 ELSE size[1]
        position_vertical == IF Len(size) = 2 THEN 0 ELSE size[2]
        width == IF Len(size) = 2 THEN size[1] ELSE size[3] - size[1]
        height == IF Len(size) = 2 THEN size[2] ELSE size[4] - size[2]
    IN CASE anchor = "top-left" -> <<position_horizontal, position_vertical>>
         [] anchor = "top-center" -> <<position_horizontal + width \div 2, position_vertical>>
         [] anchor = "top-right" -> <<position_horizontal + width, position_vertical>>
         [] anchor = "middle-left" -> <<position_horizontal, position_vertical + height \div 2>>
         [] anchor = "center" ->
                <<position_horizontal + width \div 2, position_vertical + height \div 2>>
         [] anchor = "middle-right" ->
                <<position_horizontal + width, position_vertical + height \div 2>>
         [] anchor = "bottom-left" -> <<position_horizontal, position_vertical + height>>
         [] anchor = "bottom-center" ->
                <<position_horizontal + width \div 2, position_vertical + height>>
         [] anchor = "bottom-right" -> <<position_horizontal + width, position_vertical + height>>

----------------------------------------------------------------------------
(* Outcome of one draw method: the element dict as the method left it, the *)
(* canvas, the registry, whether an exception left the method, and (for a  *)
(* drawn element) the absolute position the method computed; for a pasted  *)
(* image also the image that was pasted.                                   *)
NoImage == [w |-> 0, h |-> 0, px |-> <<>>]

Outcome(element, card, element_positions, status, msg, logs, abs) ==
    [element |-> element, card |-> card, element_positions |-> element_positions,
     raised |-> status = "raised", status |-> status, msg |-> msg, logs |-> logs,
     abs |-> abs, img |-> NoImage]

Layer(i, kind, how, box) == [src |-> i, kind |-> kind, how |-> how, box |-> box]

(* the variant: the exception leaves the method when the canvas has been   *)
(* drawn on                                                                *)
Raise_after_drawing(element, card, element_positions, msg) ==
    Outcome(element, Append(card, Layer(0, "partial", "direct", <<0, 0, 0, 0>>)),
            element_positions, "raised", msg, <<>>, <<>>)

Raise(element, card, element_positions, msg) ==
    Outcome(element, card, element_positions, "raised", msg, <<>>, <<>>)

(* tuple(map(operator.add, anchor_point, offset)) *)
operator_add_no_offset(anchor_point, offset) == anchor_point

operator_add(anchor_point, offset) ==
    <<anchor_point[1] + offset[1], anchor_point[2] + offset[2]>>

(* tuple(map(operator.sub, position, anchor_point)) *)
operator_sub_as_add(position, anchor_point) ==
    <<position[1] + anchor_point[1], position[2] + anchor_point[2]>>

operator_sub(position, anchor_point) ==
    <<position[1] - anchor_point[1], position[2] - anchor_point[2]>>

(* CardBuilder._calculate_absolute_position; the variant takes an unknown  *)
(* reference for the card's origin instead of raising                      *)
calculate_absolute_position_lenient(element, element_positions) ==
    LET position == IF Has(element, "position") THEN element.position ELSE <<I(0), I(0)>>
        known == Has(element, "relative_to")
                 /\ element.relative_to[1] \in DOMAIN element_positions
        parent_bbox == IF known THEN element_positions[element.relative_to[1]]
                       ELSE <<0, 0, 0, 0>>
    IN IF ~Has(element, "relative_to")
       THEN [raised |-> FALSE, msg |-> "", xy |-> position]
       ELSE IF apply_anchor_raises(parent_bbox, element.relative_to[2])
       THEN [raised |-> TRUE, msg |-> "ValueError: Unknown anchor", xy |-> <<>>]
       ELSE IF ~PosInts(position)
       THEN [raised |-> TRUE, msg |-> "TypeError: operator.add", xy |-> <<>>]
       ELSE [raised |-> FALSE, msg |-> "",
             xy |-> Pt(operator_add(apply_anchor(parent_bbox, element.relative_to[2]),
                                    XY(position)))]

calculate_absolute_position(element, element_positions) ==
    LET position == IF Has(element, "position") THEN element.position ELSE <<I(0), I(0)>>
    IN IF ~Has(element, "relative_to")
       THEN [raised |-> FALSE, msg |-> "", xy |-> position]
       ELSE LET relative_id == element.relative_to[1]
                anchor == element.relative_to[2]
            IN IF relative_id \notin DOMAIN element_positions
               THEN [raised |-> TRUE, msg |-> "ValueError: not found for relative positioning",
                     xy |-> <<>>]
               ELSE IF apply_anchor_raises(element_positions[relative_id], anchor)
               THEN [raised |-> TRUE, msg |-> "ValueError: Unknown anchor", xy |-> <<>>]
               ELSE IF ~PosInts(position)
               THEN [raised |-> TRUE, msg |-> "TypeError: operator.add", xy |-> <<>>]
               ELSE LET anchor_point == apply_anchor(element_positions[relative_id], anchor)
                        offset == XY(position)
                    IN [raised |-> FALSE, msg |-> "",
                        xy |-> Pt(operator_add(anchor_point, offset))]

----------------------------------------------------------------------------
(* Collaborators outside the repository, by their interface.               *)
(* PIL ImageDraw.textbbox: the box of `text` drawn at xy; with integer xy  *)
(* it is the box at (0,0) translated by xy.  The font here has a 1x2 pixel *)
(* bearing and 6x7 pixel glyphs.                                           *)
textbbox(xy, text) ==
    <<xy[1] + 1, xy[2] + 2, xy[1] + 1 + 6 * Len(text.s), xy[2] + 2 + 7>>

(* The image files of the project directory: path -> (width, height). *)
ImageFiles == [p \in {"art.png"} |-> <<7, 5>>]

(* The Pillow the renders run on (the filters are checked on both). *)
InstalledPillow == "recent"

----------------------------------------------------------------------------
(* CardBuilder._prepare_text_element / TextRenderer._prepare_text_element *)
prepare_text_element(element) ==
    LET e1 == With(element, "font", "default")
        e2 == IF Has(e1, "position") /\ e1.position = <<>>
              THEN Pop(e1, "position")
              ELSE With(e1, "position",
                        IF Has(e1, "position") THEN e1.position ELSE <<I(0), I(0)>>)
    IN With(e2, "color", IF Has(e2, "color") /\ e2.color # "" THEN e2.color ELSE "black")

(* draw.text and the registry store, the tail of _draw_text / TextRenderer.render *)
draw_text_finish(how, element, original_pos, card, element_positions, i) ==
    IF ~Has(element, "position") \/ ~PosInts(element.position) \/ element.text.k # "str"
    THEN Raise(element, card, element_positions, "TypeError: draw.text")
    ELSE LET bbox == textbbox(XY(element.position), element.text)
             card1 == Append(card, Layer(i, "text", how, bbox))
         IN Outcome(element, card1,
                    IF Has(element, "id") THEN Put(element_positions, element.id, bbox)
                    ELSE element_positions,
                    "drawn", "", <<>>, XY(original_pos))

(* the self-anchor block of _draw_text / TextRenderer.render *)
draw_text_anchor(how, element, original_pos, card, element_positions, i) ==
    IF ~Has(element, "anchor")
    THEN draw_text_finish(how, element, original_pos, card, element_positions, i)
    ELSE IF element.text.k # "str"
    THEN Raise(element, card, element_positions, "TypeError: textbbox")
    ELSE LET bbox == textbbox(<<0, 0>>, element.text)
             e1 == Pop(element, "anchor")
         IN IF apply_anchor_raises(bbox, element.anchor)
            THEN Raise(e1, card, element_positions, "ValueError: Unknown anchor")
            ELSE IF ~PosInts(original_pos)
            THEN Raise(e1, card, element_positions, "TypeError: operator.sub")
            ELSE LET anchor_point == apply_anchor(bbox, element.anchor)
                 IN draw_text_finish(how,
                        With(e1, "position",
                             Pt(operator_sub(XY(original_pos), anchor_point))),
                        original_pos, card, element_positions, i)

draw_text(how, element, card, element_positions, i) ==
    LET e1 == Pop(element, "type")
    IN IF ~Has(e1, "text")
       THEN Raise(e1, card, element_positions, "KeyError: text")
       ELSE LET e2 == prepare_text_element(e1)
                p == calculate_absolute_position(e2, element_positions)
            IN IF p.raised
               THEN Raise(e2, card, element_positions, p.msg)
               ELSE draw_text_anchor(how, With(e2, "position", p.xy), p.xy,
                                     card, element_positions, i)

(* CardBuilder._draw_text draws on the card's own ImageDraw *)
CardBuilder_draw_text(element, card, element_positions, i) ==
    draw_text("direct", element, card, element_positions, i)

(* TextRenderer.render draws on a fresh layer and alpha-composites it *)
TextRenderer_render(element, card, element_positions, i) ==
    draw_text("composite", element, card, element_positions, i)

Min(ns) == CHOOSE n \in ns : \A m \in ns : n <= m
Max(ns) == CHOOSE n \in ns : \A m \in ns : n >= m

----------------------------------------------------------------------------
(* Pillow, by its interface.  An image is its size and its pixels; a pixel *)
(* is named after the place (column + 1, row + 1) it has in the file it    *)
(* was loaded from, and Clear is the transparent pixel (0, 0, 0, 0).       *)
Clear == <<0, 0>>
Pixels(w, h) == (0..(w - 1)) \X (0..(h - 1))
Inside(img, x, y) == x \in 0..(img.w - 1) /\ y \in 0..(img.h - 1)
Loaded(w, h) == [w |-> w, h |-> h, px |-> [p \in Pixels(w, h) |-> <<p[1] + 1, p[2] + 1>>]]

Returned(img) == [raised |-> FALSE, img |-> img]
ValueError == [raised |-> TRUE, img |-> [w |-> 0, h |-> 0, px |-> <<>>]]
ZeroDivisionError == [raised |-> TRUE, img |-> [w |-> 0, h |-> 0, px |-> <<>>]]

(* Image.new("RGBA", (w, h), (0, 0, 0, 0)), defined for non-negative sizes *)
Image_new(w, h) == [w |-> w, h |-> h, px |-> [p \in Pixels(w, h) |-> Clear]]

(* img.crop(box): the box's region, places outside the image zero-filled.  *)
(* A box whose right or lower edge is before its left or upper edge makes  *)
(* a recent Pillow raise ValueError and an older one return an image with  *)
(* no pixels.                                                              *)
Image_crop(pillow, img, box) ==
    IF box[3] < box[1] \/ box[4] < box[2]
    THEN IF pillow = "recent" THEN ValueError
         ELSE Returned([w |-> IF box[3] < box[1] THEN 0 ELSE box[3] - box[1],
                        h |-> IF box[4] < box[2] THEN 0 ELSE box[4] - box[2],
                        px |-> [p \in {} |-> Clear]])
    ELSE Returned([w |-> box[3] - box[1], h |-> box[4] - box[2],
                   px |-> [p \in Pixels(box[3] - box[1], box[4] - box[2]) |->
                              IF Inside(img, box[1] + p[1], box[2] + p[2])
                              THEN img.px[<<box[1] + p[1], box[2] + p[2]>>]
                              ELSE Clear]])

(* new_img.paste(img, at), without a mask: the pixels are copied *)
Image_paste(new_img, img, at) ==
    [new_img EXCEPT !.px = [p \in Pixels(new_img.w, new_img.h) |->
                              IF Inside(img, p[1] - at[1], p[2] - at[2])
                              THEN img.px[<<p[1] - at[1], p[2] - at[2]>>]
                              ELSE new_img.px[p]]]

(* ImageOps._filter_crop_top .. _filter_crop_right (image_ops.py), the     *)
(* same code as CardBuilder._filter_crop_top .. _filter_crop_right         *)
filter_crop_top_unshifted(pillow, img, value) ==
    IF value < 0
    THEN Returned(Image_paste(Image_new(img.w, img.h - value), img, <<0, 0>>))
    ELSE Image_crop(pillow, img, <<0, value, img.w, img.h>>)

filter_crop_top(pillow, img, value) ==
    IF value < 0
    THEN Returned(Image_paste(Image_new(img.w, img.h - value), img, <<0, 0 - value>>))
    ELSE Image_crop(pillow, img, <<0, value, img.w, img.h>>)

filter_crop_bottom(pillow, img, value) ==
    IF value < 0
    THEN Returned(Image_paste(Image_new(img.w, img.h - value), img, <<0, 0>>))
    ELSE Image_crop(pillow, img, <<0, 0, img.w, img.h - value>>)

filter_crop_left(pillow, img, value) ==
    IF value < 0
    THEN Returned(Image_paste(Image_new(img.w - value, img.h), img, <<0 - value, 0>>))
    ELSE Image_crop(pillow, img, <<value, 0, img.w, img.h>>)

filter_crop_right(pillow, img, value) ==
    IF value < 0
    THEN Returned(Image_paste(Image_new(img.w - value, img.h), img, <<0, 0>>))
    ELSE Image_crop(pillow, img, <<0, 0, img.w - value, img.h>>)

(* ImageOps._filter_crop_box / CardBuilder._filter_crop_box; the variant   *)
(* pastes the overlap at the canvas origin                                 *)
filter_crop_box_at_origin(pillow, img, box) ==
    LET position_horizontal == box[1]
        position_vertical == box[2]
        width == box[3]
        height == box[4]
        source_left == Max({0, position_horizontal})
        source_top == Max({0, position_vertical})
        source_right == Min({img.w, position_horizontal + width})
        source_bottom == Min({img.h, position_vertical + height})
    IN IF width < 0 \/ height < 0 THEN ValueError
       ELSE IF source_left < source_right /\ source_top < source_bottom
       THEN Returned(Image_paste(Image_new(width, height),
                        Image_crop(pillow, img, <<source_left, source_top,
                                                  source_right, source_bottom>>).img,
                        <<0, 0>>))
       ELSE Returned(Image_new(width, height))

filter_crop_box(pillow, img, box) ==
    LET position_horizontal == box[1]
        position_vertical == box[2]
        width == box[3]
        height == box[4]
        source_left == Max({0, position_horizontal})
        source_top == Max({0, position_vertical})
        source_right == Min({img.w, position_horizontal + width})
        source_bottom == Min({img.h, position_vertical + height})
    IN IF width < 0 \/ height < 0 THEN ValueError
       ELSE IF source_left < source_right /\ source_top < source_bottom
       THEN LET source_width == source_right - source_left
                source_height == source_bottom - source_top
                src_img == Image_crop(pillow, img,
                              <<source_left, source_top,
                                source_left + source_width, source_top + source_height>>).img
                destination_horizontal == source_left - position_horizontal
                destination_vertical == source_top - position_vertical
            IN Returned(Image_paste(Image_new(width, height), src_img,
                                    <<destination_horizontal, destination_vertical>>))
       ELSE Returned(Image_new(width, height))

(* ImageOps._filter_crop / CardBuilder._filter_crop: img.crop(tuple(crop_values)) *)
filter_crop(pillow, img, crop_values) == Image_crop(pillow, img, crop_values)

(* img.transpose(method): the pixels moved, none changed *)
Image_transpose(img, method) ==
    CASE method = "FLIP_LEFT_RIGHT" ->
            [img EXCEPT !.px = [p \in Pixels(img.w, img.h) |-> img.px[<<img.w - 1 - p[1], p[2]>>]]]
      [] method = "FLIP_TOP_BOTTOM" ->
            [img EXCEPT !.px = [p \in Pixels(img.w, img.h) |-> img.px[<<p[1], img.h - 1 - p[2]>>]]]
      [] method = "ROTATE_180" ->
            [img EXCEPT !.px = [p \in Pixels(img.w, img.h) |->
                                   img.px[<<img.w - 1 - p[1], img.h - 1 - p[2]>>]]]
      [] method = "ROTATE_90" ->
            [w |-> img.h, h |-> img.w,
             px |-> [p \in Pixels(img.h, img.w) |-> img.px[<<img.w - 1 - p[2], p[1]>>]]]
      [] method = "ROTATE_270" ->
            [w |-> img.h, h |-> img.w,
             px |-> [p \in Pixels(img.h, img.w) |-> img.px[<<p[2], img.h - 1 - p[1]>>]]]

(* a colour that resampling has interpolated from the pixels of the source *)
Resampled == <<-1, -1>>

(* img.resize(size): a copy for the image's own size, a resampled image    *)
(* for another one, ValueError for a size that is not positive             *)
Image_resize(img, size) ==
    IF size[1] <= 0 \/ size[2] <= 0 THEN ValueError
    ELSE IF size = <<img.w, img.h>> THEN Returned(img)
    ELSE Returned([w |-> size[1], h |-> size[2],
                   px |-> [p \in Pixels(size[1], size[2]) |-> Resampled]])

(* ImageOps._filter_resize / CardBuilder._filter_resize; a missing side    *)
(* (None, here a number no size has) follows from the aspect ratio,        *)
(* rounded towards zero                                                    *)
None == -1000

filter_resize(pillow, img, size) ==
    LET new_width == size[1]
        new_height == size[2]
    IN IF new_width = None /\ new_height = None THEN Returned(img)
       ELSE IF (new_width = None \/ new_height = None) /\ img.h = 0 THEN ZeroDivisionError
       ELSE IF new_width = None
       THEN Image_resize(img, <<(new_height * img.w) \div img.h, new_height>>)
       ELSE IF new_height = None /\ img.w = 0 THEN ZeroDivisionError
       ELSE IF new_height = None
       THEN Image_resize(img, <<new_width, (new_width * img.h) \div img.w>>)
       ELSE Image_resize(img, <<new_width, new_height>>)

(* ImageOps._filter_rotate / CardBuilder._filter_rotate:                    *)
(* img.rotate(angle, expand=True), for the right angles, which Pillow turns *)
(* into a copy or a transpose                                              *)
filter_rotate(pillow, img, angle) ==
    CASE angle % 360 = 0 -> Returned(img)
      [] angle % 360 = 90 -> Returned(Image_transpose(img, "ROTATE_90"))
      [] angle % 360 = 180 -> Returned(Image_transpose(img, "ROTATE_180"))
      [] angle % 360 = 270 -> Returned(Image_transpose(img, "ROTATE_270"))

(* ImageOps._filter_flip / CardBuilder._filter_flip *)
filter_flip(pillow, img, direction) ==
    IF direction = "horizontal" THEN Returned(Image_transpose(img, "FLIP_LEFT_RIGHT"))
    ELSE IF direction = "vertical" THEN Returned(Image_transpose(img, "FLIP_TOP_BOTTOM"))
    ELSE Returned(img)

(* getattr(ImageOps, f"_filter_{filter_name}") for the crop filters *)
EdgeFilters == {"crop_top", "crop_bottom", "crop_left", "crop_right"}

filter_method(filter_name, pillow, img, filter_value) ==
    CASE filter_name = "crop_top" -> filter_crop_top(pillow, img, filter_value)
      [] filter_name = "crop_bottom" -> filter_crop_bottom(pillow, img, filter_value)
      [] filter_name = "crop_left" -> filter_crop_left(pillow, img, filter_value)
      [] filter_name = "crop_right" -> filter_crop_right(pillow, img, filter_value)
      [] filter_name = "crop_box" -> filter_crop_box(pillow, img, filter_value)
      [] filter_name = "crop" -> filter_crop(pillow, img, filter_value)
      [] filter_name = "resize" -> filter_resize(pillow, img, filter_value)
      [] filter_name = "rotate" -> filter_rotate(pillow, img, filter_value)
      [] filter_name = "flip" -> filter_flip(pillow, img, filter_value)

(* hasattr(ImageOps, f"_filter_{filter_name}"): the filters the class      *)
(* defines (CardBuilder defines the same ones, and takes its               *)
(* _filter_unsupported, which returns the image, for every other name)     *)
DefinedFilters == EdgeFilters \cup {"crop", "crop_box", "resize", "rotate", "flip"}

(* one turn of the loop of apply_filters; the variant has no filter for an *)
(* unknown name and raises                                                 *)
apply_filter_strict(pillow, img, filter_name, filter_value) ==
    IF filter_name \in DefinedFilters
    THEN filter_method(filter_name, pillow, img, filter_value)
    ELSE ValueError

apply_filter(pillow, img, filter_name, filter_value) ==
    IF filter_name \in DefinedFilters
    THEN filter_method(filter_name, pillow, img, filter_value)
    ELSE Returned(img)

(* An item (name, value) of a filters mapping; what the value is depends   *)
(* on the filter: a number, a box or size, a direction.                    *)
NoFilterValue == [n |-> 0, box |-> <<>>, word |-> ""]
FilterItem(name, field, value) ==
    [name |-> name, value |-> [NoFilterValue EXCEPT ![field] = value]]

value_of(item) ==
    CASE item.name \in {"crop", "crop_box", "resize"} -> item.value.box
      [] item.name = "flip" -> item.value.word
      [] OTHER -> item.value.n

(* the filters taken from the last to the first *)
RECURSIVE apply_filters_backwards(_, _, _)
apply_filters_backwards(pillow, img, filters) ==
    IF filters = <<>> THEN Returned(img)
    ELSE LET n == Len(filters)
             res == apply_filter(pillow, img, filters[n].name, value_of(filters[n]))
         IN IF res.raised THEN res
            ELSE apply_filters_backwards(pillow, res.img, SubSeq(filters, 1, n - 1))

(* ImageOps.apply_filters / CardBuilder._apply_image_filters: filters is    *)
(* the sequence of the mapping's items in iteration order; an exception of *)
(* a filter leaves the loop                                                *)
RECURSIVE apply_filters(_, _, _)
apply_filters(pillow, img, filters) ==
    IF filters = <<>> THEN Returned(img)
    ELSE LET res == apply_filter(pillow, img, filters[1].name, value_of(filters[1]))
         IN IF res.raised THEN res
            ELSE apply_filters(pillow, res.img, Tail(filters))

----------------------------------------------------------------------------
(* the except FileNotFoundError clause of _draw_image / ImageRenderer.render: *)
(* the error is logged and the method returns; the variant goes on with an  *)
(* empty image in the file's place                                          *)
image_not_found_placeholder(element, card, element_positions, i) ==
    LET bbox == <<0, 0, 0, 0>>
    IN Outcome(element, Append(card, Layer(i, "image", "paste", bbox)),
               IF Has(element, "id") THEN Put(element_positions, element.id, bbox)
               ELSE element_positions,
               "drawn", "", <<"Image not found">>, <<0, 0>>)

image_not_found(element, card, element_positions, i) ==
    Outcome(element, card, element_positions, "no_file", "", <<"Image not found">>, <<>>)

(* CardBuilder._draw_image / ImageRenderer.render after the filters: the    *)
(* position, the own anchor, the paste and the registry entry               *)
paste_image(element, img, card, element_positions, i) ==
    LET size == <<img.w, img.h>>
        p == calculate_absolute_position(element, element_positions)
        e2 == IF Has(element, "anchor") THEN Pop(element, "anchor") ELSE element
    IN IF p.raised
       THEN Raise(element, card, element_positions, p.msg)
       ELSE IF Has(element, "anchor") /\ apply_anchor_raises(size, element.anchor)
       THEN Raise(e2, card, element_positions, "ValueError: Unknown anchor")
       ELSE IF ~PosInts(p.xy)
       THEN Raise(e2, card, element_positions, "TypeError: position")
       ELSE LET a == IF Has(element, "anchor") THEN apply_anchor(size, element.anchor)
                     ELSE <<0, 0>>
                position == operator_sub(XY(p.xy), a)
                bbox == <<position[1], position[2],
                          position[1] + img.w, position[2] + img.h>>
            IN [Outcome(e2, Append(card, Layer(i, "image", "paste", bbox)),
                        IF Has(e2, "id") THEN Put(element_positions, e2.id, bbox)
                        ELSE element_positions,
                        "drawn", "", <<>>, XY(p.xy)) EXCEPT !.img = img]

(* CardBuilder._draw_image / ImageRenderer.render *)
draw_image(element, card, element_positions, i) ==
    LET e1 == Pop(element, "type")
    IN IF ~Has(e1, "path")
       THEN Raise(e1, card, element_positions, "KeyError: path")
       ELSE IF e1.path \notin DOMAIN ImageFiles
       THEN image_not_found(e1, card, element_positions, i)
       ELSE LET opened == Loaded(ImageFiles[e1.path][1], ImageFiles[e1.path][2])
                filtered == apply_filters(InstalledPillow, opened,
                                          IF Has(e1, "filters") THEN e1.filters ELSE <<>>)
            IN IF filtered.raised
               THEN Raise(e1, card, element_positions, "Error: filter")
               ELSE paste_image(e1, filtered.img, card, element_positions, i)

----------------------------------------------------------------------------
(* CardBuilder._draw_shape_generic / ShapeRenderer._draw_shape_generic;    *)
(* draw_raises is the draw_func callback raising (a missing "sides").      *)
draw_shape_generic(kind, element, size, draw_raises, card, element_positions, i) ==
    LET p == calculate_absolute_position(element, element_positions)
        e1 == IF Has(element, "color") THEN With(element, "fill", element.color) ELSE element
        e2 == IF Has(e1, "anchor") THEN Pop(e1, "anchor") ELSE e1
    IN IF p.raised
       THEN Raise(element, card, element_positions, p.msg)
       ELSE IF Has(e1, "anchor") /\ apply_anchor_raises(size, e1.anchor)
       THEN Raise(e2, card, element_positions, "ValueError: Unknown anchor")
       ELSE IF ~PosInts(p.xy)
       THEN Raise(e2, card, element_positions, "TypeError: position")
       ELSE IF draw_raises
       THEN Raise(e2, card, element_positions, "KeyError: draw_func")
       ELSE LET anchor_offset == IF Has(e1, "anchor") THEN apply_anchor(size, e1.anchor)
                                 ELSE <<0, 0>>
                absolute_pos == operator_sub(XY(p.xy), anchor_offset)
                bbox == <<absolute_pos[1], absolute_pos[2],
                          absolute_pos[1] + size[1], absolute_pos[2] + size[2]>>
            IN Outcome(e2, Append(card, Layer(i, kind, "composite", bbox)),
                       IF Has(e2, "id") THEN Put(element_positions, e2.id, bbox)
                       ELSE element_positions,
                       "drawn", "", <<>>, XY(p.xy))

(* _draw_shape_circle and _draw_shape_regular_polygon *)
draw_shape_radius(kind, element, card, element_positions, i) ==
    LET e1 == Pop(element, "type")
    IN IF ~Has(e1, "radius")
       THEN Raise(e1, card, element_positions, "KeyError: radius")
       ELSE draw_shape_generic(kind, e1, <<e1.radius * 2, e1.radius * 2>>,
                               kind = "regular-polygon" /\ ~Has(e1, "sides"),
                               card, element_positions, i)

(* _draw_shape_ellipse and _draw_shape_rectangle *)
draw_shape_size(kind, element, card, element_positions, i) ==
    LET e1 == Pop(element, "type")
    IN IF ~Has(e1, "size")
       THEN Raise(e1, card, element_positions, "KeyError: size")
       ELSE draw_shape_generic(kind, e1, e1.size, FALSE, card, element_positions, i)

(* _draw_shape_polygon *)
draw_shape_polygon(element, card, element_positions, i) ==
    LET e1 == Pop(element, "type")
        points == IF Has(e1, "points") THEN e1.points ELSE <<>>
    IN IF points = <<>>
       THEN Outcome(e1, card, element_positions, "no_points", "", <<>>, <<>>)
       ELSE LET xs == {points[j][1] : j \in DOMAIN points}
                ys == {points[j][2] : j \in DOMAIN points}
            IN draw_shape_generic("polygon", e1, <<Max(xs) - Min(xs), Max(ys) - Min(ys)>>,
                                  FALSE, card, element_positions, i)

----------------------------------------------------------------------------
(* CardBuilder.render: the draw_methods table and the body of the loop *)
ShapeKinds == {"circle", "ellipse", "polygon", "regular-polygon", "rectangle"}
draw_methods == {"text", "image"} \cup ShapeKinds

draw_method(eng, element, card, element_positions, i) ==
    CASE element.type = "text" ->
            IF eng = "builder"
            THEN CardBuilder_draw_text(element, card, element_positions, i)
            ELSE TextRenderer_render(element, card, element_positions, i)
      [] element.type = "image" -> draw_image(element, card, element_positions, i)
      [] element.type \in {"circle", "regular-polygon"} ->
            draw_shape_radius(element.type, element, card, element_positions, i)
      [] element.type \in {"ellipse", "rectangle"} ->
            draw_shape_size(element.type, element, card, element_positions, i)
      [] element.type = "polygon" -> draw_shape_polygon(element, card, element_positions, i)

render_element(eng, element, card, element_positions, i) ==
    IF ~Has(element, "type") \/ element.type \notin draw_methods
    THEN Outcome(element, card, element_positions, "skipped", "", <<>>, <<>>)
    ELSE draw_method(eng, element, card, element_positions, i)

(* the except clause of the loop: the exception is logged, never re-raised *)
(* and the loop goes on with element i + 1 of n                            *)
render_except_reraise(res, i, n) ==
    [propagate |-> res.raised, next |-> i + 1, logs |-> {}]

render_except_break(res, i, n) ==
    [propagate |-> FALSE, next |-> IF res.raised THEN n + 1 ELSE i + 1,
     logs |-> IF res.raised THEN {"Error drawing element"} ELSE {}]

render_except(res, i, n) ==
    [propagate |-> FALSE, next |-> i + 1,
     logs |-> IF res.raised THEN {"Error drawing element"} ELSE {}]

(* decksmith.validate.transform_card and validate_card *)
transform_card(spec) == spec
validate_card_raises(spec) == FALSE

----------------------------------------------------------------------------
(* CardBuilder.__init__ *)
IdleCard(by) ==
    [pc |-> "idle", by |-> by, ref |-> 0, card |-> <<>>, size |-> <<0, 0>>,
     element_positions |-> <<>>, idx |-> 0, visited |-> <<>>, trace |-> <<>>,
     saveCalls |-> 0, wrote |-> {}]

CardBuilder_init(spec, ref, by) ==
    LET width == IF Has(spec, "width") THEN spec.width ELSE I(250)
        height == IF Has(spec, "height") THEN spec.height ELSE I(350)
    IN [raised |-> ~(IsInt(width) /\ IsInt(height) /\ width.n >= 0 /\ height.n >= 0),
        cb |-> [IdleCard(by) EXCEPT
                  !.pc = "constructed", !.ref = ref, !.size = <<width.n, height.n>>,
                  !.element_positions =
                      IF Has(spec, "id") THEN spec.id :> <<0, 0, width.n, height.n>>
                      ELSE <<>>]]

----------------------------------------------------------------------------
(* Documents *)
RECURSIVE Build(_, _)
Build(element, kvs) ==
    IF kvs = <<>> THEN element
    ELSE Build(With(element, kvs[1][1], kvs[1][2]), Tail(kvs))

El(type, kvs) == Build(With(EmptyElement, "type", type), kvs)

RenderPool ==
    { El("rectangle", << <<"id", "a">>, <<"position", Pt(<<10, 10>>)>>, <<"size", <<50, 50>> >> >>),
      El("circle", << <<"id", "b">>, <<"relative_to", <<"a", "bottom-right">> >>,
                      <<"position", Pt(<<5, 5>>)>>, <<"radius", 4>>, <<"anchor", "center">>,
                      <<"color", "red">> >>),
      El("text", << <<"id", "c">>, <<"relative_to", <<"b", "center">> >>,
                    <<"anchor", "bottom-center">>, <<"text", S(<<"H", "i">>)>> >>),
      El("image", << <<"id", "a">>, <<"relative_to", <<"card", "center">> >>,
                     <<"path", "art.png">>, <<"anchor", "middle-right">> >>),
      El("ellipse", << <<"id", "d">>, <<"relative_to", <<"d", "top-left">> >>,
                       <<"size", <<6, 4>> >> >>),
      El("regular-polygon", << <<"id", "b">>, <<"radius", 3>>, <<"sides", 5>>,
                               <<"anchor", "middle">> >>),
      El("hexagon", << <<"id", "a">>, <<"position", Pt(<<1, 1>>)>> >>),
      El("image", << <<"id", "b">>, <<"path", "gone.png">> >>),
      El("polygon", << <<"relative_to", <<"c", "top-right">> >>, <<"position", Pt(<<3, 2>>)>>,
                       <<"points", << <<0, 0>>, <<4, 0>>, <<2, 6>> >> >> >>),
      El("rectangle", << <<"id", "c">>, <<"position", Pt(<<2, 3>>)>> >>) }

Injective(seq) == \A i, j \in DOMAIN seq : i # j => seq[i] # seq[j]

ElementLists(pool, n) ==
    UNION { {seq \in [1..m -> pool] : Injective(seq)} : m \in 0..n }

Document(keys, id, width, elements) ==
    [keys |-> keys \cup {"elements"}, id |-> id,
     width |-> IF "width" \in keys THEN width ELSE I(0), height |-> I(0),
     elements |-> elements]

NoSpec == Document({}, "", I(0), <<>>)

(* one anchored element of every renderer, for each anchor and some sizes *)
AnchoredElements ==
    UNION { { El("rectangle", << <<"id", "e">>, <<"position", Pt(<<20, 30>>)>>,
                                 <<"anchor", a>>, <<"size", sz>> >>)
                : sz \in {<<5, 4>>, <<1, 7>>, <<0, 0>>} }
            \cup
            { El("circle", << <<"id", "e">>, <<"position", Pt(<<20, 30>>)>>,
                              <<"anchor", a>>, <<"radius", 3>> >>),
              El("text", << <<"id", "e">>, <<"position", Pt(<<20, 30>>)>>,
                            <<"anchor", a>>, <<"text", S(<<"H", "i", "!">>)>> >>),
              El("image", << <<"id", "e">>, <<"relative_to", <<"card", "center">> >>,
                             <<"anchor", a>>, <<"path", "art.png">> >>),
              El("polygon", << <<"id", "e">>, <<"position", Pt(<<20, 30>>)>>, <<"anchor", a>>,
                               <<"points", << <<1, 1>>, <<4, 2>>, <<2, 6>> >> >> >>) }
          : a \in Anchors }

(* image elements with a filters mapping, alone and before an element     *)
(* that refers to them                                                     *)
FilterChains ==
    { <<FilterItem("crop_top", "n", 1), FilterItem("rotate", "n", 90)>>,
      <<FilterItem("rotate", "n", 90), FilterItem("crop_top", "n", 1)>>,
      <<FilterItem("sepia", "n", 3), FilterItem("crop_left", "n", 2),
        FilterItem("flip", "word", "horizontal")>>,
      <<FilterItem("resize", "box", <<4, None>>)>>,
      <<FilterItem("crop_box", "box", <<-1, -1, 3, 3>>), FilterItem("opacity", "n", 50)>>,
      <<FilterItem("crop_left", "n", -2), FilterItem("resize", "box", <<0, 3>>)>> }

FilteredImages ==
    { El("image", << <<"id", "a">>, <<"position", Pt(<<20, 30>>)>>, <<"path", "art.png">>,
                     <<"filters", f>> >>) : f \in FilterChains }
    \cup { El("image", << <<"id", "a">>, <<"position", Pt(<<20, 30>>)>>, <<"anchor", a>>,
                          <<"path", "art.png">>, <<"filters", f>> >>)
               : a \in Anchors, f \in FilterChains }

FilteredDocs ==
    { Document({"id"}, "card", I(0), <<e>>) : e \in FilteredImages }
    \cup { Document({"id"}, "card", I(0),
                    <<e, El("circle", << <<"id", "b">>, <<"relative_to", <<"a", "bottom-right">> >>,
                                         <<"position", Pt(<<5, 5>>)>>, <<"radius", 4>>,
                                         <<"anchor", "center">>, <<"color", "red">> >>)>>)
               : e \in FilteredImages }

(* elements that have the card's own id, and a polygon without points *)
RegistryPool ==
    { El("rectangle", << <<"id", "card">>, <<"position", Pt(<<1, 2>>)>>, <<"size", <<3, 4>> >> >>),
      El("text", << <<"id", "card">>, <<"relative_to", <<"card", "center">> >>,
                    <<"text", S(<<"x">>)>> >>),
      El("circle", << <<"relative_to", <<"card", "bottom-right">> >>, <<"radius", 2>> >>),
      El("polygon", << <<"id", "p">>, <<"points", <<>> >> >>) }

RegistryDocs ==
    { Document(keys, "card", I(0), els) :
        keys \in {{}, {"id"}}, els \in ElementLists(RegistryPool, MaxElems) }

RenderDocs ==
    { Document({"id"}, "card", I(0), els) : els \in ElementLists(RenderPool, MaxElems) }
    \cup { Document({"id"}, "card", I(0), <<e>>) : e \in AnchoredElements }
    \cup FilteredDocs
    \cup RegistryDocs

Engines == {"builder", "renderers"}

----------------------------------------------------------------------------
(* build_card's except clause (deck_builder.py): the row's failure is      *)
(* logged with its card number and does not leave the task.                *)
build_card_except_reraise(c, msg) ==
    [caught |-> FALSE, logs |-> {}]

build_card_except(c, msg) ==
    [caught |-> TRUE,
     logs |-> {[level |-> "error", what |-> "Error building card", card |-> c, msg |-> msg]}]

(* An exception msg leaves the CardBuilder code of card c: a row's task    *)
(* catches it, build_deck's single-card branch and a direct caller do not. *)
ThrownFrom(cs, c, msg) ==
    LET h == IF cards[c].by = "row" THEN build_card_except(c, msg)
             ELSE [caught |-> FALSE, logs |-> {}]
    IN /\ cards' = [cs EXCEPT ![c].pc = IF h.caught THEN "failed" ELSE "raised"]
       /\ log' = log \cup h.logs
       /\ deck' = IF ~h.caught /\ cards[c].by # "direct"
                  THEN [deck EXCEPT !.pc = "raised", !.exc = msg] ELSE deck

Thrown(c, msg) == ThrownFrom(cards, c, msg)

----------------------------------------------------------------------------
(* CardBuilder.render, entry: transform_card and validate_card *)
RenderBegin(c) ==
    /\ cards[c].pc = "constructed"
    /\ UNCHANGED <<doc, cli, call, engine, files>>
    /\ IF validate_card_raises(transform_card(specs[cards[c].ref]))
       THEN /\ Thrown(c, "ValidationError")
            /\ UNCHANGED specs
       ELSE /\ specs' = [specs EXCEPT ![cards[c].ref] = transform_card(@)]
            /\ cards' = [cards EXCEPT ![c].pc = "rendering", ![c].idx = 1]
            /\ UNCHANGED <<deck, log>>

(* CardBuilder.render, one iteration of the loop over the elements *)
DrawStep(c) ==
    /\ cards[c].pc = "rendering"
    /\ cards[c].idx <= Len(specs[cards[c].ref].elements)
    /\ UNCHANGED <<doc, cli, call, engine, files>>
    /\ LET cb == cards[c]
           res == render_element(engine, specs[cb.ref].elements[cb.idx], cb.card,
                                 cb.element_positions, cb.idx)
           h == render_except(res, cb.idx, Len(specs[cb.ref].elements))
       IN /\ specs' = [specs EXCEPT ![cb.ref].elements[cb.idx] = res.element]
          /\ IF h.propagate
             THEN Thrown(c, res.msg)
             ELSE /\ cards' = [cards EXCEPT ![c] =
                         [cb EXCEPT !.card = res.card,
                                    !.element_positions = res.element_positions,
                                    !.idx = h.next,
                                    !.visited = Append(cb.visited, cb.idx),
                                    !.trace = Append(cb.trace,
                                                [status |-> res.status, msg |-> res.msg,
                                                 abs |-> res.abs, img |-> res.img])]]
                  /\ log' = log \cup
                         {[level |-> "error", what |-> m, card |-> c, msg |-> res.msg]
                             : m \in h.logs \cup {res.logs[j] : j \in DOMAIN res.logs}}
                  /\ UNCHANGED deck

(* CardBuilder.render, the loop is exhausted: return self.card *)
RenderReturn(c) ==
    /\ cards[c].pc = "rendering"
    /\ cards[c].idx > Len(specs[cards[c].ref].elements)
    /\ cards' = [cards EXCEPT ![c].pc = "rendered"]
    /\ UNCHANGED <<doc, cli, call, specs, engine, deck, files, log>>

(* df.iterrows(): the index label of the r-th row of a table read by       *)
(* pd.read_csv(..., header=0), a RangeIndex from 0                         *)
iterrows_index(r) == r - 1

(* f"card_{idx + 1}.png", by its number *)
card_file_one(idx) == 1

card_file(idx) == idx + 1

(* the output_path handed to CardBuilder.build for card c: build_card's,   *)
(* the single-card branch's "card_1.png", or a direct caller's own path    *)
output_file(c) ==
    CASE cards[c].by = "row" -> card_file(iterrows_index(c))
      [] cards[c].by = "single" -> 1
      [] OTHER -> c

(* CardBuilder.build after render: card.save(output_path), which the file  *)
(* system may refuse; build_deck's single-card branch then returns.        *)
Save(c) ==
    /\ cards[c].pc = "rendered"
    /\ UNCHANGED <<doc, cli, call, specs, engine>>
    /\ \E written \in BOOLEAN :
         IF written
         THEN /\ cards' = [cards EXCEPT ![c].pc = "saved", ![c].saveCalls = @ + 1,
                                        ![c].wrote = @ \cup {output_file(c)}]
              /\ files' = files \cup {output_file(c)}
              /\ deck' = IF cards[c].by = "single" THEN [deck EXCEPT !.pc = "returned"]
                         ELSE deck
              /\ UNCHANGED log
         ELSE /\ ThrownFrom([cards EXCEPT ![c].saveCalls = @ + 1], c, "OSError")
              /\ UNCHANGED files

----------------------------------------------------------------------------
(* Rendering one document: a CardBuilder is constructed on the document    *)
(* object (as build_deck's single-card branch does with the cached spec),  *)
(* built, and then a second CardBuilder is constructed on the same object. *)
(* no command line (the library is called directly) and no call in progress *)
NoCli ==
    [pc |-> "none", specExists |-> TRUE, data |-> "", source |-> "", echo |-> {}, exit |-> -1]

NoCall == [op |-> "none"]

NoDeck ==
    [pc |-> "none", csv |-> "none", specOk |-> TRUE, cached |-> FALSE, parses |-> 0,
     rows |-> <<>>, exc |-> ""]

RenderInit ==
    /\ doc \in RenderDocs
    /\ specs = [o \in 0..NRows |-> IF o = 0 THEN doc ELSE NoSpec]
    /\ cards = [c \in Rows |-> IF c = 1 THEN CardBuilder_init(doc, 0, "direct").cb
                               ELSE IdleCard("direct")]
    /\ engine \in Engines
    /\ deck = NoDeck
    /\ files = {}
    /\ log = {}
    /\ cli = NoCli
    /\ call = NoCall

RenderAgain ==
    /\ cards[1].pc \in {"saved", "raised"}
    /\ cards[2].pc = "idle"
    /\ cards' = [cards EXCEPT ![2] = CardBuilder_init(specs[0], 0, "direct").cb]
    /\ UNCHANGED <<doc, cli, call, specs, engine, deck, files, log>>

RenderNext ==
    \/ \E c \in {1, 2} : RenderBegin(c)
    \/ \E c \in {1, 2} : DrawStep(c)
    \/ \E c \in {1, 2} : RenderReturn(c)
    \/ \E c \in {1, 2} : Save(c)
    \/ RenderAgain

RenderSpec == RenderInit /\ [][RenderNext]_vars

(* The same program on a smaller family of documents, with the fairness    *)
(* of a sequential program: a step that can be taken is taken.             *)
BuildPool ==
    {e \in RenderPool :
        \/ e.type \in {"rectangle", "hexagon", "ellipse"}
        \/ e.type = "circle"}

BuildInit ==
    /\ doc \in {Document({"id"}, "card", I(0), els) : els \in ElementLists(BuildPool, BuildMaxElems)}
    /\ specs = [o \in 0..NRows |-> IF o = 0 THEN doc ELSE NoSpec]
    /\ cards = [c \in Rows |-> IF c = 1 THEN CardBuilder_init(doc, 0, "direct").cb
                               ELSE IdleCard("direct")]
    /\ engine = "builder"
    /\ deck = NoDeck
    /\ files = {}
    /\ log = {}
    /\ cli = NoCli
    /\ call = NoCall

BuildSpec == BuildInit /\ [][RenderNext]_vars /\ WF_vars(RenderNext)

----------------------------------------------------------------------------
(* DeckBuilder.resolve_macros / MacroResolver.resolve on strings *)
Whitespace == {" ", "\t", "\n"}

RECURSIVE lstrip(_)
lstrip(chars) ==
    IF chars # <<>> /\ Head(chars) \in Whitespace THEN lstrip(Tail(chars)) ELSE chars

RECURSIVE rstrip(_)
rstrip(chars) ==
    IF chars # <<>> /\ chars[Len(chars)] \in Whitespace
    THEN rstrip(SubSeq(chars, 1, Len(chars) - 1)) ELSE chars

strip(chars) == rstrip(lstrip(chars))

(* f"%{key}%" *)
Token(key) == <<"%">> \o key \o <<"%">>

(* str(val) of a row value *)
Digit(n) == <<"0", "1", "2", "3", "4", "5", "6", "7", "8", "9">>[n + 1]

RECURSIVE Digits(_)
Digits(n) == IF n < 10 THEN <<Digit(n)>> ELSE Digits(n \div 10) \o <<Digit(n % 10)>>

str(val) ==
    IF val.k = "str" THEN val.s
    ELSE IF val.n < 0 THEN <<"-">> \o Digits(0 - val.n) ELSE Digits(val.n)

(* str.replace(old, new, 1) *)
replace_first(chars, old, new) ==
    LET at == {i \in 1..(Len(chars) - Len(old) + 1) : SubSeq(chars, i, i + Len(old) - 1) = old}
    IN IF at = {} THEN chars
       ELSE SubSeq(chars, 1, Min(at) - 1) \o new
            \o SubSeq(chars, Min(at) + Len(old), Len(chars))

(* str.replace(old, new) with a non-empty old *)
RECURSIVE replace(_, _, _)
replace(chars, old, new) ==
    IF Len(chars) < Len(old) THEN chars
    ELSE IF SubSeq(chars, 1, Len(old)) = old
    THEN new \o replace(SubSeq(chars, Len(old) + 1, Len(chars)), old, new)
    ELSE <<Head(chars)>> \o replace(Tail(chars), old, new)

(* the columns taken from the last to the first *)
RECURSIVE replace_all_backwards(_, _)
replace_all_backwards(chars, row) ==
    IF row = <<>> THEN chars
    ELSE replace_all_backwards(replace(chars, Token(row[Len(row)][1]), str(row[Len(row)][2])),
                               SubSeq(row, 1, Len(row) - 1))

(* the second loop of replace_in_value: one column after the other *)
RECURSIVE replace_all(_, _)
replace_all(chars, row) ==
    IF row = <<>> THEN chars
    ELSE replace_all(replace(chars, Token(row[1][1]), str(row[1][2])), Tail(row))

(* replace_in_value without the exact-match loop *)
replace_in_value_no_exact(value, row) ==
    IF value.k = "str" THEN S(replace_all(value.s, row)) ELSE value

(* replace_in_value on a scalar; a row is the sequence of its (column,     *)
(* value) pairs in iteration order                                         *)
replace_in_value(value, row) ==
    IF value.k = "str"
    THEN LET stripped_value == strip(value.s)
             exact == {j \in DOMAIN row : stripped_value = Token(row[j][1])}
         IN IF exact # {} THEN row[Min(exact)][2]
            ELSE S(replace_all(value.s, row))
    ELSE value

(* replace_in_value on an element dict and on the document: a new dict and *)
(* new lists with every value replaced.  The strings of the other keys     *)
(* (type, id, anchor, relative_to, path, color) hold no "%" in the         *)
(* documents considered and are returned as they are.                      *)
resolve_element(element, row) ==
    [element EXCEPT
        !.position = [j \in DOMAIN element.position |-> replace_in_value(element.position[j], row)],
        !.text = IF Has(element, "text") THEN replace_in_value(element.text, row) ELSE @]

resolve_macros(spec, row) ==
    [spec EXCEPT
        !.width = IF Has(spec, "width") THEN replace_in_value(spec.width, row) ELSE @,
        !.elements = [j \in DOMAIN spec.elements |-> resolve_element(spec.elements[j], row)]]

----------------------------------------------------------------------------
(* resolve_macros on any tree.  A list is List(obj, items), a dict is       *)
(* Dict(obj, pairs) with pairs the (key, value) pairs in iteration order;   *)
(* obj tells the objects apart: 0 for a list or dict of the tree given to   *)
(* resolve_macros, 1 for one that a comprehension of replace_in_value has   *)
(* built.                                                                  *)
List(obj, items) == [k |-> "list", n |-> obj, s |-> items]
Dict(obj, pairs) == [k |-> "dict", n |-> obj, s |-> pairs]

IsContainer(v) == v.k \in {"list", "dict"}
child(v, j) == IF v.k = "dict" THEN v.s[j][2] ELSE v.s[j]

(* a copy of the top level only, the nested values returned as they are *)
resolve_value_shallow(value, row) ==
    IF IsContainer(value) THEN [value EXCEPT !.n = 1] ELSE replace_in_value(value, row)

(* replace_in_value: str, list, dict, anything else *)
RECURSIVE resolve_value(_, _)
resolve_value(value, row) ==
    CASE value.k = "str" -> replace_in_value(value, row)
      [] value.k = "list" ->
            List(1, [j \in DOMAIN value.s |-> resolve_value(value.s[j], row)])
      [] value.k = "dict" ->
            Dict(1, [j \in DOMAIN value.s |->
                        <<value.s[j][1], resolve_value(value.s[j][2], row)>>])
      [] OTHER -> value

(* in-place mutation of the list or dict at `path` of a tree: the first    *)
(* entry is removed (list.pop(0), dict.pop(key)), an empty one gets an     *)
(* entry (list.append, dict[key] = value)                                  *)
mutate_here(v) ==
    [v EXCEPT !.s = IF @ # <<>> THEN Tail(@)
                    ELSE IF v.k = "dict" THEN << <<(<<"k">>), I(0)>> >> ELSE <<I(0)>>]

RECURSIVE ValidPath(_, _)
ValidPath(v, path) ==
    /\ IsContainer(v)
    /\ path # <<>> => /\ path[1] \in DOMAIN v.s
                      /\ ValidPath(child(v, path[1]), Tail(path))

RECURSIVE node_at(_, _)
node_at(v, path) == IF path = <<>> THEN v ELSE node_at(child(v, path[1]), Tail(path))

RECURSIVE mutate_at(_, _)
mutate_at(v, path) ==
    IF path = <<>> THEN mutate_here(v)
    ELSE LET c == mutate_at(child(v, path[1]), Tail(path))
         IN [v EXCEPT !.s[path[1]] = IF v.k = "dict" THEN <<@[1], c>> ELSE c]

(* the arguments: strings put together from tokens, letters and blanks,    *)
(* trees of lists and dicts, and rows as read from a table                 *)
MacroPieces ==
    { <<"%", "a", "%">>, <<"%", "b", "%">>, <<"%", "c", "%">>, <<"%">>, <<" ">>, <<"Q">>, <<"a">> }

RECURSIVE Concat(_)
Concat(parts) == IF parts = <<>> THEN <<>> ELSE Head(parts) \o Concat(Tail(parts))

MacroStrings ==
    { S(Concat(parts)) : parts \in UNION { [1..m -> MacroPieces] : m \in 0..MacroMaxParts } }

MacroRows ==
    { <<>>,
      << <<(<<"a">>), I(5)>> >>,
      << <<(<<"a">>), I(5)>>, <<(<<"b">>), S(<<"%", "a", "%">>)>> >>,
      << <<(<<"a">>), S(<<"%", "b", "%">>)>>, <<(<<"b">>), I(-3)>> >>,
      << <<(<<"b">>), S(<<"a">>)>>, <<(<<"a">>), I(12)>> >>,
      << <<(<<"a">>), S(<<>>)>>, <<(<<"b">>), S(<<" ">>)>> >>,
      << <<(<<"b">>), I(-3)>>, <<(<<"a">>), S(<<"x", " ">>)>> >> }

MacroLeaves ==
    { S(<<"%", "a", "%">>), S(<<"Q", "%", "b", "%">>), S(<<" ", "%", "b", "%", " ">>), I(7) }

MacroKeys == { <<"t">>, <<"%", "a", "%">>, <<"i", "d">> }

Containers(values) ==
    UNION { { List(0, items) : items \in [1..m -> values] }
            \cup { Dict(0, [j \in 1..m |-> <<keys[j], items[j]>>]) :
                      keys \in {ks \in [1..m -> MacroKeys] : Injective(ks)},
                      items \in [1..m -> values] }
          : m \in 0..MacroMaxItems }

MacroTrees ==
    Containers(MacroLeaves
               \cup { List(0, <<>>), List(0, <<S(<<"%", "a", "%">>), I(7)>>),
                      Dict(0, << <<(<<"%", "a", "%">>), S(<<"%", "a", "%">>)>> >>) })

(* everything outside the call of resolve_macros is at rest *)
LibraryOnly ==
    /\ doc = NoSpec
    /\ specs = [o \in 0..NRows |-> NoSpec]
    /\ cards = [c \in Rows |-> IdleCard("direct")]
    /\ engine = "builder"
    /\ deck = NoDeck
    /\ files = {}
    /\ log = {}
    /\ cli = NoCli

MacroInit ==
    /\ LibraryOnly
    /\ \E spec \in MacroStrings \cup MacroTrees, row \in MacroRows :
          call = [op |-> "resolve_macros", pc |-> "called", spec |-> spec, row |-> row,
                  given |-> [spec |-> spec, row |-> row], out |-> I(0)]

(* DeckBuilder.resolve_macros(spec, row) returns *)
MacroResolve ==
    /\ call.op = "resolve_macros" /\ call.pc = "called"
    /\ call' = [call EXCEPT !.pc = "returned", !.out = resolve_value(call.spec, call.row)]
    /\ UNCHANGED <<doc, specs, cards, engine, deck, files, log, cli>>

(* the caller mutates a list or dict of the returned tree in place, as the *)
(* draw methods do; an object that is also part of the tree given to       *)
(* resolve_macros changes there too                                        *)
MacroMutate ==
    /\ call.op = "resolve_macros" /\ call.pc = "returned"
    /\ \E path \in UNION { [1..m -> 1..MacroMaxItems] : m \in 0..2 } :
          /\ ValidPath(call.out, path)
          /\ LET shared == node_at(call.out, path).n = 0
             IN /\ shared => ValidPath(call.spec, path)
                /\ call' = [call EXCEPT !.pc = "mutated",
                                        !.out = mutate_at(@, path),
                                        !.spec = IF shared THEN mutate_at(@, path) ELSE @]
    /\ UNCHANGED <<doc, specs, cards, engine, deck, files, log, cli>>

MacroNext ==
    \/ MacroResolve
    \/ MacroMutate

MacroSpec == MacroInit /\ [][MacroNext]_vars

(* the object build_card hands to CardBuilder: the structure resolve_macros *)
(* has built for row r (object r), not the cached document (object 0)       *)
resolved_object_in_place(r) == 0

resolved_object(r) == r

----------------------------------------------------------------------------
(* DeckBuilder.build_deck *)
single_card_mode_none_only(csv) == csv = "none"

(* not self.csv_path or not self.csv_path.exists() *)
single_card_mode(csv) == csv \in {"none", "missing"}

DeckPool ==
    { El("rectangle", << <<"id", "a">>, <<"position", <<S(<<"%", "x", "%">>), I(10)>> >>,
                         <<"size", <<50, 50>> >> >>),
      El("circle", << <<"id", "b">>, <<"relative_to", <<"a", "bottom-right">> >>,
                      <<"position", Pt(<<5, 5>>)>>, <<"radius", 4>>, <<"anchor", "center">> >>),
      El("text", << <<"relative_to", <<"card", "top-center">> >>,
                    <<"text", S(<<"N", " ", "%", "x", "%">>)>> >>),
      El("ellipse", << <<"id", "d">>, <<"relative_to", <<"zz", "center">> >>,
                       <<"size", <<6, 4>> >> >>) }

DeckDocs ==
    { Document(keys, "card", S(<<" ", "%", "w", "%">>), els) :
        keys \in {{"id"}, {"id", "width"}}, els \in ElementLists(DeckPool, DeckMaxElems) }

(* the rows of the table: column x is 10 * r, column w a width or text     *)
(* (a document without a width names column w nowhere: one table stands    *)
(* for all)                                                                *)
RowOf(r, w) == << <<(<<"x">>), I(10 * r)>>, <<(<<"w">>), w>> >>
Tables == { [r \in Rows |-> RowOf(r, ws[r])] : ws \in [Rows -> {I(40), S(<<"w", "i", "d", "e">>)}] }
NoTable == [r \in Rows |-> RowOf(r, I(40))]

Init ==
    /\ doc \in DeckDocs
    /\ specs = [o \in 0..NRows |-> NoSpec]
    /\ cards = [c \in Rows |-> IdleCard("row")]
    /\ engine = "builder"
    /\ \E csv \in {"none", "missing", "ok", "bad"}, specOk \in BOOLEAN :
         \E rows \in IF csv = "ok" /\ Has(doc, "width") THEN Tables ELSE {NoTable} :
            deck = [pc |-> "start", csv |-> csv, specOk |-> specOk, cached |-> FALSE,
                    parses |-> 0, rows |-> rows, exc |-> ""]
    /\ files = {}
    /\ log = {}
    /\ cli = NoCli
    /\ call = NoCall

(* build_deck up to the branch: single card, unreadable table, or the pool *)
BuildDeckEnter ==
    /\ deck.pc = "start"
    /\ UNCHANGED <<doc, cli, call, specs, engine, files>>
    /\ IF single_card_mode(deck.csv)
       THEN /\ deck' = [deck EXCEPT !.pc = "single"]
            /\ cards' = [cards EXCEPT ![1] = IdleCard("single")]
            /\ log' = log \cup {[level |-> "info", what |-> "No CSV file found", card |-> 0,
                                 msg |-> ""]}
       ELSE IF deck.csv # "ok"
       THEN /\ deck' = [deck EXCEPT !.pc = "returned"]
            /\ log' = log \cup {[level |-> "error", what |-> "Error reading CSV file",
                                 card |-> 0, msg |-> ""]}
            /\ UNCHANGED cards
       ELSE /\ deck' = [deck EXCEPT !.pc = "pool"]
            /\ cards' = [c \in Rows |-> [IdleCard("row") EXCEPT !.pc = "queued"]]
            /\ UNCHANGED log

(* single-card branch: CardBuilder(self.spec, base_path=base_path) *)
SingleConstruct ==
    /\ deck.pc = "single"
    /\ cards[1].pc = "idle"
    /\ UNCHANGED <<doc, cli, call, engine, files, log>>
    /\ IF ~deck.specOk
       THEN /\ deck' = [deck EXCEPT !.pc = "raised", !.exc = "YAMLError", !.parses = @ + 1]
            /\ cards' = [cards EXCEPT ![1].pc = "raised"]
            /\ UNCHANGED specs
       ELSE LET init == CardBuilder_init(doc, 0, "single")
            IN /\ specs' = [specs EXCEPT ![0] = doc]
               /\ deck' = [deck EXCEPT !.cached = TRUE, !.parses = @ + 1,
                                       !.pc = IF init.raised THEN "raised" ELSE @,
                                       !.exc = IF init.raised THEN "TypeError" ELSE @]
               /\ cards' = [cards EXCEPT ![1] =
                              IF init.raised THEN [@ EXCEPT !.pc = "raised"] ELSE init.cb]

(* a worker starts build_card for row r: self.spec tests the cache *)
RowSpecCheck(r) ==
    /\ cards[r].pc = "queued"
    /\ cards' = [cards EXCEPT ![r].pc = IF deck.cached THEN "resolve" ELSE "loading"]
    /\ UNCHANGED <<doc, cli, call, specs, engine, deck, files, log>>

(* self.spec found no cached document: it parses the file and caches it;   *)
(* nothing keeps a second worker from having tested the cache in between   *)
RowSpecLoad(r) ==
    /\ cards[r].pc = "loading"
    /\ UNCHANGED <<doc, cli, call, engine, files>>
    /\ IF deck.specOk
       THEN /\ specs' = [specs EXCEPT ![0] = doc]
            /\ deck' = [deck EXCEPT !.cached = TRUE, !.parses = @ + 1]
            /\ cards' = [cards EXCEPT ![r].pc = "resolve"]
            /\ UNCHANGED log
       ELSE LET h == build_card_except(r, "YAMLError")
            IN /\ cards' = [cards EXCEPT ![r].pc = IF h.caught THEN "failed" ELSE "raised"]
               /\ log' = log \cup h.logs
               /\ deck' = [deck EXCEPT !.parses = @ + 1,
                                       !.pc = IF h.caught THEN @ ELSE "raised",
                                       !.exc = IF h.caught THEN @ ELSE "YAMLError"]
               /\ UNCHANGED specs

(* spec = self.resolve_macros(self.spec, row.to_dict()) *)
RowResolve(r) ==
    /\ cards[r].pc = "resolve"
    /\ specs' = [specs EXCEPT ![resolved_object(r)] = resolve_macros(specs[0], deck.rows[r])]
    /\ cards' = [cards EXCEPT ![r].pc = "construct", ![r].ref = resolved_object(r)]
    /\ UNCHANGED <<doc, cli, call, engine, deck, files, log>>

(* card_builder = CardBuilder(spec, base_path=base_path) *)
RowConstruct(r) ==
    /\ cards[r].pc = "construct"
    /\ UNCHANGED <<doc, cli, call, specs, engine, files>>
    /\ LET init == CardBuilder_init(specs[cards[r].ref], cards[r].ref, "row")
       IN IF init.raised
          THEN Thrown(r, "TypeError")
          ELSE /\ cards' = [cards EXCEPT ![r] = init.cb]
               /\ UNCHANGED <<deck, log>>

(* the with block of the executor ends when every task has finished *)
PoolJoin ==
    /\ deck.pc = "pool"
    /\ \A r \in Rows : cards[r].pc \in {"saved", "failed"}
    /\ deck' = [deck EXCEPT !.pc = "returned"]
    /\ UNCHANGED <<doc, cli, call, specs, cards, engine, files, log>>

Next ==
    \/ BuildDeckEnter
    \/ SingleConstruct
    \/ \E r \in Rows : RowSpecCheck(r)
    \/ \E r \in Rows : RowSpecLoad(r)
    \/ \E r \in Rows : RowResolve(r)
    \/ \E r \in Rows : RowConstruct(r)
    \/ \E c \in Rows : RenderBegin(c)
    \/ \E c \in Rows : DrawStep(c)
    \/ \E c \in Rows : RenderReturn(c)
    \/ \E c \in Rows : Save(c)
    \/ PoolJoin

Spec == Init /\ [][Next]_vars

----------------------------------------------------------------------------
(* main.build, the `decksmith build` command.  cli.data is what the file   *)
(* system holds at the --data path ("missing", "ok": a table, "bad": a file *)
(* pandas cannot read), cli.source where the option's value came from.     *)
Info(what) == [level |-> "info", what |-> what, card |-> 0, msg |-> ""]
Error(what) == [level |-> "error", what |-> what, card |-> 0, msg |-> ""]

(* source.name == "DEFAULT" *)
is_default_source_always(source) == TRUE

is_default_source(source) == source = "DEFAULT"

CliDocs ==
    { Document({"id"}, "card", I(0), els) : els \in ElementLists(DeckPool, CliMaxElems) }

CliInit ==
    /\ doc \in CliDocs
    /\ specs = [o \in 0..NRows |-> NoSpec]
    /\ cards = [c \in Rows |-> IdleCard("row")]
    /\ engine = "builder"
    /\ \E data \in {"missing", "ok", "bad"}, source \in {"DEFAULT", "COMMANDLINE"},
          specExists \in BOOLEAN, specOk \in BOOLEAN :
         /\ specOk => specExists
         /\ deck = [NoDeck EXCEPT !.specOk = specOk, !.rows = NoTable]
         /\ cli = [NoCli EXCEPT !.pc = "start", !.specExists = specExists, !.data = data,
                                !.source = source]
    /\ files = {}
    /\ log = {}
    /\ call = NoCall

(* build, from its entry to the call of builder.build_deck(output_path) or *)
(* to the FileNotFoundError handler: click.echo and ctx.exit(1)            *)
CliBuild ==
    /\ cli.pc = "start"
    /\ UNCHANGED <<doc, specs, cards, engine, files, call>>
    /\ IF ~cli.specExists
       THEN /\ cli' = [cli EXCEPT !.pc = "exited", !.exit = 1,
                                  !.echo = @ \cup {"(x) Spec file not found"}]
            /\ log' = log \cup {Info("(i) Building deck in")}
            /\ UNCHANGED deck
       ELSE IF cli.data = "missing" /\ is_default_source(cli.source)
       THEN /\ cli' = [cli EXCEPT !.pc = "building"]
            /\ log' = log \cup {Info("(i) Building deck in"),
                                Info("(i) Building a single card deck")}
            /\ deck' = [deck EXCEPT !.pc = "start", !.csv = "none"]
       ELSE IF cli.data = "missing"
       THEN /\ cli' = [cli EXCEPT !.pc = "exited", !.exit = 1,
                                  !.echo = @ \cup {"(x) Data file not found"}]
            /\ log' = log \cup {Info("(i) Building deck in")}
            /\ UNCHANGED deck
       ELSE /\ cli' = [cli EXCEPT !.pc = "building"]
            /\ log' = log \cup {Info("(i) Building deck in")}
            /\ deck' = [deck EXCEPT !.pc = "start", !.csv = cli.data]

(* build, after build_deck: an exception that left it is reported by one   *)
(* of the two handlers (an OSError of the save may be a FileNotFoundError) *)
(* and ctx.exit(1) leaves the command; otherwise success is logged.        *)
CliExit ==
    /\ cli.pc = "building"
    /\ deck.pc \in {"returned", "raised"}
    /\ UNCHANGED <<doc, specs, cards, engine, deck, files, call>>
    /\ IF deck.pc = "raised"
       THEN \E not_found \in {deck.exc = "OSError", FALSE} :
               IF not_found
               THEN /\ cli' = [cli EXCEPT !.pc = "exited", !.exit = 1,
                                          !.echo = @ \cup {"(x) " \o deck.exc}]
                    /\ UNCHANGED log
               ELSE /\ cli' = [cli EXCEPT !.pc = "exited", !.exit = 1]
                    /\ log' = log \cup {Error("(x) Error building deck")}
       ELSE /\ cli' = [cli EXCEPT !.pc = "exited", !.exit = 0]
            /\ log' = log \cup {Info("Deck built successfully")}

CliNext ==
    \/ CliBuild
    \/ CliExit
    \/ Next

CliSpec == CliInit /\ [][CliNext]_vars

----------------------------------------------------------------------------
(* utils.apply_anchor called on its own: any tuple of integers, any name *)
AnchorCoords == (0 - AnchorMaxCoord)..AnchorMaxCoord

AnchorBoxes ==
    [1..2 -> AnchorCoords] \cup [1..4 -> AnchorCoords]
    \cup { <<>>, <<2>>, <<1, 2, 3>>, <<0, 0, 2, 2, 1>>,
           <<0, 0, 100, 60>>, <<100, 60>>, <<10, 10, 60, 60>>, <<-7, 5, 30, 12>> }

AnchorNames == Anchors \cup {"middle", "centre", ""}

AnchorInit ==
    /\ LibraryOnly
    /\ \E size \in AnchorBoxes, anchor \in AnchorNames :
          call = [op |-> "apply_anchor", pc |-> "called", size |-> size, anchor |-> anchor,
                  raised |-> FALSE, out |-> <<>>]

AnchorCall ==
    /\ call.op = "apply_anchor" /\ call.pc = "called"
    /\ call' = [call EXCEPT
                  !.pc = "returned",
                  !.raised = apply_anchor_raises(call.size, call.anchor),
                  !.out = IF apply_anchor_raises(call.size, call.anchor) THEN <<>>
                          ELSE apply_anchor(call.size, call.anchor)]
    /\ UNCHANGED <<doc, specs, cards, engine, deck, files, log, cli>>

AnchorNext == AnchorCall

AnchorSpec == AnchorInit /\ [][AnchorNext]_vars

----------------------------------------------------------------------------
(* one filter applied to one loaded image *)
CropImages == { Loaded(w, h) : w \in 1..CropMaxSide, h \in 1..CropMaxSide }

CropValues(filter_name) ==
    IF filter_name \in EdgeFilters THEN (0 - CropMaxSide)..(CropMaxSide + 1)
    ELSE [1..2 -> -2..(CropMaxSide + 1)] \X [1..2 -> -1..(CropMaxSide + 1)]

FilterInit ==
    /\ LibraryOnly
    /\ \E pillow \in {"recent", "older"} :
          \/ \E img \in CropImages, filter_name \in EdgeFilters :
                \E v \in CropValues(filter_name) :
                   call = [op |-> "filter", pc |-> "called", pillow |-> pillow, img |-> img,
                           name |-> filter_name, value |-> v, out |-> ValueError]
          \/ \E img \in CropImages : \E v \in CropValues("crop_box") :
                call = [op |-> "filter", pc |-> "called", pillow |-> pillow, img |-> img,
                        name |-> "crop_box", value |-> v[1] \o v[2], out |-> ValueError]
          \/ call = [op |-> "filter", pc |-> "called", pillow |-> pillow,
                     img |-> Loaded(100, 100), name |-> "crop_top", value |-> -10,
                     out |-> ValueError]

FilterCall ==
    /\ call.op = "filter" /\ call.pc = "called"
    /\ call' = [call EXCEPT !.pc = "returned",
                            !.out = filter_method(call.name, call.pillow, call.img, call.value)]
    /\ UNCHANGED <<doc, specs, cards, engine, deck, files, log, cli>>

FilterNext == FilterCall

FilterSpec == FilterInit /\ [][FilterNext]_vars

----------------------------------------------------------------------------
(* A filters mapping applied to one loaded image. *)
PipeImages == { Loaded(3, 2), Loaded(2, 3), Loaded(2, 2) }

PipeItems ==
    { FilterItem("crop_left", "n", 1), FilterItem("crop_top", "n", -1),
      FilterItem("crop_bottom", "n", 4), FilterItem("rotate", "n", 90),
      FilterItem("flip", "word", "horizontal"), FilterItem("flip", "word", "vertical"),
      FilterItem("flip", "word", "diagonal"),
      FilterItem("crop_box", "box", <<1, 0, 2, 2>>), FilterItem("resize", "box", <<2, None>>),
      FilterItem("sepia", "n", 3), FilterItem("opacity", "n", 50),
      FilterItem("grayscale", "word", "on") }

(* the items of a mapping: no name twice *)
Mappings(items, n) ==
    UNION { {seq \in [1..m -> items] :
                \A i, j \in 1..m : i # j => seq[i].name # seq[j].name} : m \in 0..n }

PipeInit ==
    /\ LibraryOnly
    /\ \E pillow \in {"recent", "older"}, img \in PipeImages,
          filters \in Mappings(PipeItems, PipeMaxLen) :
          call = [op |-> "apply_filters", pc |-> "called", pillow |-> pillow, img |-> img,
                  filters |-> filters, out |-> ValueError]

(* ImageOps.apply_filters(img, filters) returns or raises *)
PipeCall ==
    /\ call.op = "apply_filters" /\ call.pc = "called"
    /\ call' = [call EXCEPT !.pc = "returned",
                            !.out = apply_filters(call.pillow, call.img, call.filters)]
    /\ UNCHANGED <<doc, specs, cards, engine, deck, files, log, cli>>

PipeNext == PipeCall

PipeSpec == PipeInit /\ [][PipeNext]_vars

----------------------------------------------------------------------------
(* utils.get_wrapped_text.  font.getlength: the font advances 6 pixels a   *)
(* character.                                                              *)
getlength(chars) == 6 * Len(chars)

(* text.split("\n") *)
RECURSIVE split_newline(_)
split_newline(chars) ==
    LET at == {i \in DOMAIN chars : chars[i] = "\n"}
    IN IF at = {} THEN <<chars>>
       ELSE <<SubSeq(chars, 1, Min(at) - 1)>>
            \o split_newline(SubSeq(chars, Min(at) + 1, Len(chars)))

(* line.split(): the words between runs of whitespace *)
RECURSIVE split_words(_)
split_words(chars) ==
    LET rest == lstrip(chars)
        blanks == {i \in DOMAIN rest : rest[i] \in Whitespace}
        n == IF blanks = {} THEN Len(rest) ELSE Min(blanks) - 1
    IN IF rest = <<>> THEN <<>>
       ELSE <<SubSeq(rest, 1, n)>> \o split_words(SubSeq(rest, n + 1, Len(rest)))

(* the loop over the words of one line of the text, from lines = [""] *)
RECURSIVE wrap_line(_, _, _)
wrap_line(words, lines, line_length) ==
    IF words = <<>> THEN lines
    ELSE LET word == Head(words)
             line_to_check == strip(lines[Len(lines)] \o <<" ">> \o word)
         IN IF getlength(line_to_check) <= line_length
            THEN wrap_line(Tail(words), [lines EXCEPT ![Len(lines)] = line_to_check],
                           line_length)
            ELSE wrap_line(Tail(words), Append(lines, word), line_length)

(* the loop over the lines of the text: wrapped_lines.extend(lines) *)
RECURSIVE wrap_lines(_, _)
wrap_lines(paragraphs, line_length) ==
    IF paragraphs = <<>> THEN <<>>
    ELSE wrap_line(split_words(Head(paragraphs)), <<(<<>>)>>, line_length)
         \o wrap_lines(Tail(paragraphs), line_length)

(* "\n".join(wrapped_lines) *)
RECURSIVE join_newline(_)
join_newline(lines) ==
    IF lines = <<>> THEN <<>>
    ELSE IF Len(lines) = 1 THEN lines[1]
    ELSE lines[1] \o <<"\n">> \o join_newline(Tail(lines))

get_wrapped_text(text, line_length) ==
    join_newline(wrap_lines(split_newline(text), line_length))

(* the arguments: texts put together from words, blanks and newlines *)
WrapPieces == { <<"a">>, <<"b", "b", "b">>, <<" ">>, <<"\n">> }
WrapTexts == { Concat(parts) : parts \in UNION { [1..m -> WrapPieces] : m \in 0..WrapMaxParts } }
WrapLimits == {6, 12, 30, 60}

WrapInit ==
    /\ LibraryOnly
    /\ \E text \in WrapTexts, line_length \in WrapLimits :
          call = [op |-> "get_wrapped_text", pc |-> "called", text |-> text,
                  line_length |-> line_length, out |-> <<>>]

(* get_wrapped_text(text, font, line_length) returns *)
WrapCall ==
    /\ call.op = "get_wrapped_text" /\ call.pc = "called"
    /\ call' = [call EXCEPT !.pc = "returned",
                            !.out = get_wrapped_text(call.text, call.line_length)]
    /\ UNCHANGED <<doc, specs, cards, engine, deck, files, log, cli>>

WrapNext == WrapCall

WrapSpec == WrapInit /\ [][WrapNext]_vars

----------------------------------------------------------------------------
(* Reference definitions for the properties, over the document as parsed.  *)
D(i) == doc.elements[i]
NElems == Len(doc.elements)

(* the layers element i put on the canvas of card c *)
LayersOf(c, i) == {k \in DOMAIN cards[c].card : cards[c].card[k].src = i}
DrawnOn(c, i) == LayersOf(c, i) # {}
BoxOf(c, i) == cards[c].card[CHOOSE k \in LayersOf(c, i) : TRUE].box

(* the documented anchor points of a box (x1, y1, x2, y2) *)
AnchorColumn(a) ==
    CASE a \in {"top-left", "middle-left", "bottom-left"} -> "left"
      [] a \in {"top-center", "center", "bottom-center"} -> "mid"
      [] a \in {"top-right", "middle-right", "bottom-right"} -> "right"
AnchorRow(a) ==
    CASE a \in {"top-left", "top-center", "top-right"} -> "top"
      [] a \in {"middle-left", "center", "middle-right"} -> "mid"
      [] a \in {"bottom-left", "bottom-center", "bottom-right"} -> "bottom"
Along(lo, hi, part) ==
    CASE part \in {"left", "top"} -> lo
      [] part = "mid" -> lo + (hi - lo) \div 2
      [] part \in {"right", "bottom"} -> hi
AnchorPoint(box, a) ==
    <<Along(box[1], box[3], AnchorColumn(a)), Along(box[2], box[4], AnchorRow(a))>>

(* an element that cannot fail by itself: known type, the fields its kind  *)
(* needs, an existing image file whose filters all succeed, known anchor   *)
(* names, integer position                                                 *)
HasRequired(e) ==
    /\ Has(e, "type") /\ e.type \in draw_methods
    /\ e.type = "text" => Has(e, "text") /\ e.text.k = "str"
    /\ e.type = "image" =>
          /\ Has(e, "path") /\ e.path \in DOMAIN ImageFiles
          /\ ~apply_filters(InstalledPillow,
                            Loaded(ImageFiles[e.path][1], ImageFiles[e.path][2]),
                            IF Has(e, "filters") THEN e.filters ELSE <<>>).raised
    /\ e.type \in {"circle", "regular-polygon"} => Has(e, "radius")
    /\ e.type = "regular-polygon" => Has(e, "sides")
    /\ e.type \in {"ellipse", "rectangle"} => Has(e, "size") /\ Len(e.size) = 2
    /\ e.type = "polygon" => Has(e, "points") /\ e.points # <<>>
WellFormed(e) ==
    /\ HasRequired(e)
    /\ Has(e, "anchor") => e.anchor \in Anchors
    /\ Has(e, "relative_to") => e.relative_to[2] \in Anchors
    /\ Has(e, "position") => PosInts(e.position)

CardIds == IF Has(doc, "id") THEN {doc.id} ELSE {}

(* element i neither fails itself nor depends on one that failed *)
RECURSIVE Drawable(_)
Drawable(i) ==
    /\ WellFormed(D(i))
    /\ Has(D(i), "relative_to") =>
          \/ D(i).relative_to[1] \in CardIds
          \/ \E j \in 1..(i - 1) :
                Drawable(j) /\ Has(D(j), "id") /\ D(j).id = D(i).relative_to[1]

(* the ids registered before card c reached element i: the card's own id  *)
(* and the ids of the elements that were drawn                             *)
EarlierDrawn(c, i, id) ==
    {j \in 1..(i - 1) : cards[c].trace[j].status = "drawn" /\ Has(D(j), "id") /\ D(j).id = id}
KnownBefore(c, i) ==
    CardIds \cup {D(j).id : j \in {j \in 1..(i - 1) :
                     cards[c].trace[j].status = "drawn" /\ Has(D(j), "id")}}

RenderOver(c) == cards[c].pc \in {"rendered", "saved", "raised", "failed"}

----------------------------------------------------------------------------
(* C1: in CardBuilder.render an exception raised while drawing an element  *)
(* is caught and the loop continues: render returns the card (it never     *)
(* raises, so the only exception of a build is the save's), and once it    *)
(* has returned every element that neither fails itself nor depends on a   *)
(* failed one is on the canvas, whatever else in the list failed.          *)
C1_RenderIsolatesElementFailures ==
    /\ cards[1].pc = "raised" => cards[1].saveCalls = 1
    /\ RenderOver(1) => \A i \in 1..NElems : Drawable(i) => DrawnOn(1, i)

C1_Witness ==
    /\ cards[1].pc = "rendered"
    /\ \E i, j \in 1..NElems :
          /\ i < j
          /\ cards[1].trace[i].status = "raised"
          /\ DrawnOn(1, j)

(* C2: CardBuilder.build always terminates: the elements are visited once  *)
(* each in declaration order (unknown types included), no element failure  *)
(* stops the build, and card.save is called exactly once, after the last   *)
(* element.                                                                *)
C2_Order(c) ==
    LET n == Len(specs[cards[c].ref].elements)
    IN /\ cards[c].saveCalls <= 1
       /\ cards[c].pc = "rendering" => cards[c].visited = [k \in 1..(cards[c].idx - 1) |-> k]
       /\ cards[c].saveCalls = 1 \/ RenderOver(c) => cards[c].visited = [k \in 1..n |-> k]

C2_Terminal(c) == cards[c].pc \in {"saved", "raised"} /\ cards[c].saveCalls = 1

C2_BuildTerminatesSavingOnce ==
    /\ [](\A c \in {1, 2} : C2_Order(c))
    /\ <>(\A c \in {1, 2} : C2_Terminal(c))

C2_Witness ==
    /\ cards[1].pc = "saved"
    /\ NElems = MaxElems
    /\ \E i \in 1..NElems : cards[1].trace[i].status = "raised"
    /\ \E i \in 1..NElems : cards[1].trace[i].status = "skipped"


(* C3: an element with relative_to = [ref, anchor] is positioned only if   *)
(* ref is the card's own id or the id of an element drawn earlier in the   *)
(* same render; otherwise (forward reference, self-reference, reference to *)
(* a failed or skipped element) it is not drawn, and an element that gets  *)
(* as far as position resolution raises the not-found error.               *)
NotFoundMsg == "ValueError: not found for relative positioning"

C3_RelativeToNeedsEarlierId ==
    \A i \in DOMAIN cards[1].trace :
        Has(D(i), "relative_to") =>
            LET known == D(i).relative_to[1] \in KnownBefore(1, i)
                t == cards[1].trace[i]
            IN /\ t.status = "drawn" \/ DrawnOn(1, i) => known
               /\ ~known /\ HasRequired(D(i)) => t.status = "raised" /\ t.msg = NotFoundMsg
               /\ ~known /\ Has(D(i), "id") /\ D(i).id \notin KnownBefore(1, i)
                     /\ i = Len(cards[1].trace)
                  => D(i).id \notin DOMAIN cards[1].element_positions

C3_Witness ==
    \E i, j \in DOMAIN cards[1].trace :
        /\ i < j
        /\ Has(D(i), "relative_to") /\ Has(D(j), "id")
        /\ D(i).relative_to[1] = D(j).id
        /\ cards[1].trace[i].msg = NotFoundMsg
        /\ DrawnOn(1, j)

(* C4: the absolute position of a drawn element is its `position`          *)
(* (default (0,0)) without relative_to, and otherwise the named anchor     *)
(* point of the box recorded for the referenced id plus `position`, along  *)
(* chains of any length; an element without an own anchor is drawn there.  *)
RefBox(c, i) ==
    LET js == EarlierDrawn(c, i, D(i).relative_to[1])
    IN IF js # {} THEN BoxOf(c, Max(js))
       ELSE <<0, 0, cards[c].size[1], cards[c].size[2]>>

ExpectedAbs(c, i) ==
    LET off == IF Has(D(i), "position") THEN XY(D(i).position) ELSE <<0, 0>>
    IN IF ~Has(D(i), "relative_to") THEN off
       ELSE LET p == AnchorPoint(RefBox(c, i), D(i).relative_to[2])
            IN <<p[1] + off[1], p[2] + off[2]>>

C4_AbsolutePosition ==
    \A i \in DOMAIN cards[1].trace :
        cards[1].trace[i].status = "drawn" =>
            /\ cards[1].trace[i].abs = ExpectedAbs(1, i)
            /\ ~Has(D(i), "anchor") /\ D(i).type # "text" =>
                  <<BoxOf(1, i)[1], BoxOf(1, i)[2]>> = ExpectedAbs(1, i)

C4_Witness ==
    /\ Len(cards[1].trace) = 3
    /\ \A i \in 1..3 : cards[1].trace[i].status = "drawn"
    /\ BoxOf(1, 1) = <<10, 10, 60, 60>>
    /\ D(2).relative_to = <<"a", "bottom-right">> /\ D(2).position = Pt(<<5, 5>>)
    /\ cards[1].trace[2].abs = <<65, 65>>
    /\ Has(D(3), "relative_to") /\ D(3).relative_to[1] = D(2).id

(* C5: the text, image and shape renderers apply the own `anchor` alike:   *)
(* the box recorded for an anchored element with an id has its anchor      *)
(* point exactly at the element's absolute position.                       *)
C5_SelfAnchorLandsOnPosition ==
    LET i == Len(cards[1].trace)
    IN i > 0 /\ cards[1].trace[i].status = "drawn" /\ Has(D(i), "anchor") /\ Has(D(i), "id")
       => /\ D(i).id \in DOMAIN cards[1].element_positions
          /\ AnchorPoint(cards[1].element_positions[D(i).id], D(i).anchor) = ExpectedAbs(1, i)

C5_Witness ==
    LET i == Len(cards[1].trace)
    IN /\ engine = "renderers"
       /\ i > 0 /\ cards[1].trace[i].status = "drawn"
       /\ D(i).type = "text" /\ Has(D(i), "id")
       /\ Has(D(i), "anchor") /\ D(i).anchor = "center"
       /\ cards[1].element_positions[D(i).id] # textbbox(ExpectedAbs(1, i), D(i).text)

(* C9: a second render of a specification that has been rendered once,     *)
(* with a fresh canvas and registry, gives the canvas and registry of the  *)
(* first render.                                                           *)
C9_SecondRenderIdentical ==
    RenderOver(1) /\ RenderOver(2) =>
        /\ cards[2].card = cards[1].card
        /\ cards[2].element_positions = cards[1].element_positions


----------------------------------------------------------------------------
(* The render of a specification run from start to end with nothing else   *)
(* going on: the canvas and registry a sequential build produces.          *)
RECURSIVE SeqFold(_, _, _, _, _)
SeqFold(eng, elements, i, card, element_positions) ==
    IF i > Len(elements)
    THEN [card |-> card, element_positions |-> element_positions]
    ELSE LET res == render_element(eng, elements[i], card, element_positions, i)
         IN SeqFold(eng, elements, i + 1, res.card, res.element_positions)

SeqRender(spec, eng) ==
    LET cb == CardBuilder_init(spec, 0, "direct").cb
    IN SeqFold(eng, spec.elements, 1, cb.card, cb.element_positions)

(* the positions of a row's task at which its next step waits for nothing *)
RowRunning(r) ==
    cards[r].pc \in {"queued", "loading", "resolve", "construct", "constructed",
                     "rendering", "rendered"}

RowFinished(r) == cards[r].pc \in {"saved", "failed"}

(* C6: in data-row mode no failure of a row leaves its task: it is logged  *)
(* with the row's card number, the other rows go on (an unfinished row is  *)
(* always at a step that waits for nothing), a finished row that did not   *)
(* fail has written its file, and build_deck returns only when every row's *)
(* build has finished.                                                     *)
C6_RowFailuresAreIsolated ==
    deck.csv = "ok" =>
        /\ deck.pc # "raised"
        /\ \A r \in Rows :
              /\ cards[r].pc # "raised"
              /\ cards[r].pc = "failed" =>
                    \E e \in log : e.what = "Error building card" /\ e.card = r
              /\ cards[r].pc = "saved" => r \in files
              /\ deck.pc = "pool" /\ ~RowFinished(r) => RowRunning(r)
              /\ deck.pc = "returned" => RowFinished(r)

C6_Witness ==
    /\ deck.pc = "returned"
    /\ deck.csv = "ok"
    /\ cards[1].pc = "failed" /\ cards[1].saveCalls = 0
    /\ cards[2].pc = "saved" /\ cards[2].card # <<>>

(* C7: whatever the interleaving of the row builds, a row whose render has *)
(* completed has the canvas and registry that a sequential render of the   *)
(* document resolved for that row produces.                                *)
C7_RowsRenderAsSequentially ==
    \A r \in Rows :
        deck.csv = "ok" /\ (cards[r].pc \in {"rendered", "saved"} \/ cards[r].saveCalls = 1) =>
            LET seq == SeqRender(resolve_macros(doc, deck.rows[r]), engine)
            IN /\ cards[r].card = seq.card
               /\ cards[r].element_positions = seq.element_positions

C7_Witness ==
    /\ deck.csv = "ok"
    /\ cards[1].pc = "rendering" /\ cards[1].idx = 2
    /\ cards[2].pc = "saved"
    /\ Len(cards[2].card) = 2
    /\ Len(cards[1].card) = 1
    /\ cards[1].card[1] # cards[2].card[1]

(* C8: after build_deck has returned the cached specification equals the   *)
(* document as parsed, in data-row mode and in single-card mode.           *)
C8_CacheStaysPristine ==
    deck.pc = "returned" /\ deck.cached => specs[0] = doc

(* C10: with no csv_path or a csv_path that does not exist build_deck      *)
(* builds one card, from the unresolved specification, writes card_1.png   *)
(* and no other card file.                                                 *)
C10_SingleCardWithoutTable ==
    deck.csv \in {"none", "missing"} =>
        /\ files \subseteq {1}
        /\ \A c \in Rows \ {1} : cards[c].pc = "idle"
        /\ deck.pc = "returned" =>
              /\ files = {1}
              /\ cards[1].ref = 0 /\ cards[1].saveCalls = 1
              /\ cards[1].card = SeqRender(doc, engine).card

C10_Witness ==
    /\ deck.pc = "returned"
    /\ deck.csv = "missing"
    /\ files = {1}
    /\ \E k \in DOMAIN cards[1].card :
          cards[1].card[k].kind = "text"
          /\ cards[1].card[k].box = textbbox(<<125, 0>>, S(<<"N", " ", "%", "x", "%">>))


----------------------------------------------------------------------------
(* C11: the build command on a --data path that does not exist.  Given     *)
(* explicitly, it echoes "Data file not found", exits with status 1,       *)
(* never calls build_deck and writes no card file.  Left at its default,   *)
(* it builds in single-card mode (csv_path None), and exits with status 0  *)
(* having written card_1.png unless the build itself raised.               *)
CliMissingData == cli.pc # "none" /\ cli.specExists /\ cli.data = "missing"

C11_MissingDataFile ==
    /\ CliMissingData /\ cli.source = "COMMANDLINE" =>
          /\ deck.pc = "none" /\ files = {}
          /\ \A c \in Rows : cards[c].pc = "idle"
          /\ cli.pc = "exited" =>
                cli.exit = 1 /\ cli.echo = {"(x) Data file not found"}
    /\ CliMissingData /\ cli.source = "DEFAULT" =>
          /\ cli.pc # "start" => deck.csv = "none"
          /\ \A c \in Rows : cards[c].by = "single" \/ cards[c].pc = "idle"
          /\ cli.pc = "exited" =>
                /\ "(x) Data file not found" \notin cli.echo
                /\ cli.exit = 0 <=> deck.pc = "returned"
                /\ cli.exit = 0 => files = {1}
                /\ cli.exit = 0 <=> Info("Deck built successfully") \in log

C11_Witness ==
    /\ CliMissingData /\ cli.source = "DEFAULT"
    /\ cli.pc = "exited" /\ cli.exit = 0
    /\ files = {1} /\ cards[1].card # <<>>

(* C12: a data file that exists and cannot be parsed is fatal: no card is  *)
(* written, the command exits with a non-zero status and does not log that *)
(* the deck was built successfully.                                        *)
C12_UnparsableDataIsFatal ==
    cli.pc = "exited" /\ cli.specExists /\ cli.data = "bad" =>
        /\ files = {}
        /\ cli.exit # 0
        /\ Info("Deck built successfully") \notin log

(* C13: a specification document that cannot be parsed is fatal in both    *)
(* modes: the parse error leaves build_deck, no row logs a failure of its  *)
(* own in its place, and the command exits with a non-zero status.         *)
C13_UnparsableSpecIsFatal ==
    cli.specExists /\ ~deck.specOk /\ cli.data # "bad" =>
        /\ \A e \in log : e.what # "Error building card"
        /\ deck.pc # "returned"
        /\ cli.pc = "exited" => cli.exit # 0

(* C14: the i-th data row is written to card_<i>.png and to no other file, *)
(* no two row builds write the same file, and a build of N rows that all   *)
(* succeed leaves exactly card_1.png .. card_N.png.                        *)
C14_RowsWriteTheirOwnFile ==
    deck.csv = "ok" =>
        /\ \A r \in Rows : cards[r].wrote \subseteq {r}
        /\ \A r \in Rows : cards[r].pc = "saved" => cards[r].wrote = {r}
        /\ \A r, q \in Rows : r # q => cards[r].wrote \cap cards[q].wrote = {}
        /\ files = UNION {cards[r].wrote : r \in Rows}
        /\ deck.pc = "returned" /\ (\A r \in Rows : cards[r].pc = "saved") => files = 1..NRows

C14_Witness ==
    /\ deck.csv = "ok" /\ deck.pc = "returned"
    /\ NRows >= 2
    /\ \A r \in Rows : cards[r].pc = "saved" /\ cards[r].card # <<>>
    /\ files = 1..NRows

----------------------------------------------------------------------------
(* Reference definitions for macro resolution.                             *)
MacroReturned == call.op = "resolve_macros" /\ call.pc = "returned"
Given == call.given.spec
GivenRow == call.given.row
Column(j) == GivenRow[j][1]
Raw(j) == GivenRow[j][2]

(* chars is tok with blanks around it *)
Trimmed(chars, tok) ==
    \E a, b \in 0..Len(chars) :
        /\ a + Len(tok) + b = Len(chars)
        /\ SubSeq(chars, a + 1, a + Len(tok)) = tok
        /\ \A i \in 1..Len(chars) : i <= a \/ i > a + Len(tok) => chars[i] \in Whitespace

ExactColumns(chars) == {j \in DOMAIN GivenRow : Trimmed(chars, Token(Column(j)))}

(* the places (first character, column) where a column's token stands *)
Occurrences(chars) ==
    {ij \in (1..Len(chars)) \X DOMAIN GivenRow :
        /\ ij[1] + Len(Token(Column(ij[2]))) - 1 <= Len(chars)
        /\ SubSeq(chars, ij[1], ij[1] + Len(Token(Column(ij[2]))) - 1) = Token(Column(ij[2]))}

Overlapping(chars) ==
    \E p, q \in Occurrences(chars) :
        /\ p # q
        /\ p[1] <= q[1]
        /\ q[1] < p[1] + Len(Token(Column(p[2])))

(* no value of the row, put in a token's place, can become part of a token *)
(* of the row: its text is not empty and holds neither "%" nor a character *)
(* of a column name                                                        *)
Inert(row) ==
    \A j \in DOMAIN row :
        /\ str(row[j][2]) # <<>>
        /\ \A i \in DOMAIN str(row[j][2]) :
              /\ str(row[j][2])[i] # "%"
              /\ \A q \in DOMAIN row : \A m \in DOMAIN row[q][1] :
                    str(row[j][2])[i] # row[q][1][m]

(* every token standing in chars replaced by its column's text, in one     *)
(* pass from the left; everything else copied                              *)
RECURSIVE Substitute(_)
Substitute(chars) ==
    IF chars = <<>> THEN <<>>
    ELSE LET here == {j \in DOMAIN GivenRow : <<1, j>> \in Occurrences(chars)}
         IN IF here = {} THEN <<Head(chars)>> \o Substitute(Tail(chars))
            ELSE LET j == CHOOSE j \in here : TRUE
                 IN str(Raw(j))
                    \o Substitute(SubSeq(chars, Len(Token(Column(j))) + 1, Len(chars)))

(* C15: a string that is, blanks trimmed, exactly %column% for a column of *)
(* the row resolves to that column's raw value with its type, whatever     *)
(* substring replacement would have made of it: "%a%" against {a: 5} is    *)
(* the integer 5, not the string "5".                                      *)
C15_ExactMatchKeepsRawValue ==
    MacroReturned /\ Given.k = "str" =>
        /\ \A j \in ExactColumns(Given.s) : call.out = Raw(j)
        /\ Given = S(<<"%", "a", "%">>) /\ GivenRow = << <<(<<"a">>), I(5)>> >> =>
              call.out = I(5) /\ call.out # S(<<"5">>)

C15_Witness ==
    /\ MacroReturned
    /\ Given = S(<<" ", "%", "a", "%", " ">>)
    /\ GivenRow = << <<(<<"a">>), S(<<"%", "b", "%">>)>>, <<(<<"b">>), I(-3)>> >>
    /\ call.out = S(<<"%", "b", "%">>)
    /\ S(replace_all(Given.s, GivenRow)) = S(<<" ", "-", "3", " ">>)

(* C16: a string that is not exactly one column's token resolves to a      *)
(* string: the given one with every %column% of the row replaced by the    *)
(* column's value as text and all other text, tokens of no column          *)
(* included, as it was ("Q%a%" against {a: 5} is "Q5").  Where tokens      *)
(* overlap or a substituted value can become part of a token, the order of *)
(* the columns decides what "every occurrence" is, and only the type and   *)
(* the untouched text are stated.                                          *)
C16_SubstringReplacement ==
    MacroReturned /\ Given.k = "str" /\ ExactColumns(Given.s) = {} =>
        /\ call.out.k = "str"
        /\ Occurrences(Given.s) = {} => call.out = Given
        /\ ~Overlapping(Given.s) /\ Inert(GivenRow) =>
              /\ call.out = S(Substitute(Given.s))
              /\ Occurrences(call.out.s) = {}
        /\ Given = S(<<"Q", "%", "a", "%">>) /\ GivenRow = << <<(<<"a">>), I(5)>> >> =>
              call.out = S(<<"Q", "5">>)
        /\ Given = S(<<"%", "a", "%", "%", "a", "%", "Q">>)
              /\ GivenRow = << <<(<<"b">>), S(<<"a">>)>>, <<(<<"a">>), I(12)>> >> =>
              call.out = S(<<"1", "2", "1", "2", "Q">>)
        /\ Given = S(<<"%", "b", "%", "%", "c", "%", "%", "a", "%">>)
              /\ GivenRow = << <<(<<"b">>), I(-3)>>, <<(<<"a">>), S(<<"x", " ">>)>> >> =>
              call.out = S(<<"-", "3", "%", "c", "%", "x", " ">>)

C16_Witness ==
    /\ MacroReturned
    /\ Given = S(<<"%", "b", "%", "%", "c", "%", "%", "a", "%">>)
    /\ GivenRow = << <<(<<"b">>), I(-3)>>, <<(<<"a">>), S(<<"x", " ">>)>> >>
    /\ ~Overlapping(Given.s) /\ Inert(GivenRow)
    /\ call.out = S(<<"-", "3", "%", "c", "%", "x", " ">>)

(* C17: resolve_macros is pure and keeps the structure.  It changes        *)
(* neither the tree nor the row it is given; the tree it returns has, at   *)
(* every level, the mapping keys (never substituted) and the sequence      *)
(* lengths and order of the given one, with every scalar that is not a     *)
(* string as it was; and all its lists and dicts are new objects, so that  *)
(* a later in-place change of the returned tree leaves the given tree as   *)
(* it was.                                                                 *)
RECURSIVE SameShape(_, _)
SameShape(given, out) ==
    IF IsContainer(given)
    THEN /\ out.k = given.k
         /\ Len(out.s) = Len(given.s)
         /\ \A j \in DOMAIN given.s :
               /\ given.k = "dict" => out.s[j][1] = given.s[j][1]
               /\ SameShape(child(given, j), child(out, j))
    ELSE IF given.k = "str" THEN ~IsContainer(out)
    ELSE out = given

RECURSIVE AllNew(_)
AllNew(out) ==
    IsContainer(out) => out.n # 0 /\ \A j \in DOMAIN out.s : AllNew(child(out, j))

C17_ResolutionIsPure ==
    call.op = "resolve_macros" =>
        /\ call.row = GivenRow
        /\ call.pc = "returned" =>
              /\ call.spec = Given
              /\ SameShape(Given, call.out)
              /\ AllNew(call.out)
        /\ call.pc = "mutated" => call.spec = Given

C17_Witness ==
    /\ call.op = "resolve_macros" /\ call.pc = "mutated"
    /\ Given.k = "dict" /\ Len(Given.s) = 2
    /\ Given.s[1][1] = <<"%", "a", "%">>
    /\ Given.s[1][2] = List(0, <<S(<<"%", "a", "%">>), I(7)>>)
    /\ GivenRow = << <<(<<"a">>), I(5)>> >>
    /\ call.out.s[1] = <<(<<"%", "a", "%">>), List(1, <<I(7)>>)>>

----------------------------------------------------------------------------
(* C18: apply_anchor against its reference.  A 2-tuple (w, h) is the box   *)
(* (0, 0, w, h); a 4-tuple's result is (x1, y1) plus the result for        *)
(* (x2 - x1, y2 - y1); each of the nine names gives its documented point,  *)
(* midpoints rounded down (box (0,0,100,60): center (50,30), bottom-right  *)
(* (100,60)); any other name and any other number of components raises.   *)
FloorHalf(w) == CHOOSE m \in -200..200 : 2 * m <= w /\ w <= 2 * m + 1

NamedPoint(w, h, a) ==
    << CASE a \in {"top-left", "middle-left", "bottom-left"} -> 0
         [] a \in {"top-center", "center", "bottom-center"} -> FloorHalf(w)
         [] a \in {"top-right", "middle-right", "bottom-right"} -> w,
       CASE a \in {"top-left", "top-center", "top-right"} -> 0
         [] a \in {"middle-left", "center", "middle-right"} -> FloorHalf(h)
         [] a \in {"bottom-left", "bottom-center", "bottom-right"} -> h >>

C18_ApplyAnchorReference ==
    call.op = "apply_anchor" /\ call.pc = "returned" =>
        LET size == call.size
            a == call.anchor
        IN /\ call.raised <=> (Len(size) \notin {2, 4} \/ a \notin Anchors)
           /\ ~call.raised /\ Len(size) = 2 => call.out = NamedPoint(size[1], size[2], a)
           /\ ~call.raised /\ Len(size) = 4 =>
                 LET p == NamedPoint(size[3] - size[1], size[4] - size[2], a)
                 IN call.out = <<size[1] + p[1], size[2] + p[2]>>
           /\ size = <<0, 0, 100, 60>> /\ a = "center" => call.out = <<50, 30>>
           /\ size = <<0, 0, 100, 60>> /\ a = "bottom-right" => call.out = <<100, 60>>

C18_Witness ==
    /\ call.op = "apply_anchor" /\ call.pc = "returned"
    /\ call.size = <<1, -2, -2, 3>> /\ call.anchor = "center"
    /\ ~call.raised
    /\ call.out = <<-1, 0>>

----------------------------------------------------------------------------
(* Reference definitions for the crop filters: W x H is the image given,   *)
(* Source(x, y) its pixel at column x, row y.                              *)
FilterReturned(names) == call.op = "filter" /\ call.pc = "returned" /\ call.name \in names
Source(x, y) == call.img.px[<<x, y>>]
Result == call.out.img
WellSized(img) == DOMAIN img.px = Pixels(img.w, img.h)

(* C19: crop_top, crop_bottom, crop_left, crop_right with value v on a     *)
(* W x H image.  v >= 0 (up to the side's length): v rows or columns are   *)
(* removed from the named edge.  v < 0: the image grows by |v| along that  *)
(* axis, the |v| added rows or columns on the named edge are transparent,  *)
(* and the content is intact, shifted by |v| for top and left and where it *)
(* was for bottom and right (crop_top: -10 on 100 x 100 gives 100 x 110    *)
(* with the content from row 10).                                          *)
C19_EdgeCropsTrimOrPad ==
    FilterReturned(EdgeFilters) =>
        LET v == call.value
            W == call.img.w
            H == call.img.h
            rows == call.name \in {"crop_top", "crop_bottom"}
            dx == IF call.name = "crop_left" THEN v ELSE 0
            dy == IF call.name = "crop_top" THEN v ELSE 0
        IN /\ v >= 0 /\ v <= (IF rows THEN H ELSE W) =>
                 /\ ~call.out.raised /\ WellSized(Result)
                 /\ Result.w = (IF rows THEN W ELSE W - v)
                 /\ Result.h = (IF rows THEN H - v ELSE H)
                 /\ \A p \in Pixels(Result.w, Result.h) :
                       Result.px[p] = Source(p[1] + dx, p[2] + dy)
           /\ v > (IF rows THEN H ELSE W) =>
                 call.out.raised \/ Pixels(Result.w, Result.h) = {}
           /\ v < 0 =>
                 /\ ~call.out.raised /\ WellSized(Result)
                 /\ Result.w = (IF rows THEN W ELSE W - v)
                 /\ Result.h = (IF rows THEN H - v ELSE H)
                 /\ \A q \in Pixels(W, H) : Result.px[<<q[1] - dx, q[2] - dy>>] = Source(q[1], q[2])
                 /\ \A p \in Pixels(Result.w, Result.h) :
                       ~Inside(call.img, p[1] + dx, p[2] + dy) => Result.px[p] = Clear
                 /\ \A p \in Pixels(Result.w, Result.h) :
                       /\ call.name = "crop_top" /\ p[2] < 0 - v => Result.px[p] = Clear
                       /\ call.name = "crop_left" /\ p[1] < 0 - v => Result.px[p] = Clear
                       /\ call.name = "crop_bottom" /\ p[2] >= H => Result.px[p] = Clear
                       /\ call.name = "crop_right" /\ p[1] >= W => Result.px[p] = Clear
           /\ call.img = Loaded(100, 100) /\ call.name = "crop_top" /\ v = -10 =>
                 /\ Result.w = 100 /\ Result.h = 110
                 /\ \A p \in Pixels(100, 10) : Result.px[p] = Clear
                 /\ \A p \in Pixels(100, 100) : Result.px[<<p[1], p[2] + 10>>] = Source(p[1], p[2])

C19_Witness ==
    /\ FilterReturned({"crop_top"})
    /\ call.img = Loaded(100, 100) /\ call.value = -10
    /\ Result.h = 110
    /\ Result.px[<<0, 9>>] = Clear /\ Result.px[<<0, 10>>] = <<1, 1>>

(* C20: crop_box [x, y, w, h] on a W x H image returns a w x h image whose *)
(* pixel (i, j) is the source pixel (x + i, y + j) where that lies inside  *)
(* the image and transparent elsewhere, for every x and y, negative ones   *)
(* included, and every box partly or wholly outside the image; with no     *)
(* overlap the result is transparent throughout.  (No image has a negative *)
(* width or height: such a box raises.)                                    *)
C20_CropBoxWindow ==
    FilterReturned({"crop_box"}) =>
        LET x == call.value[1]
            y == call.value[2]
            w == call.value[3]
            h == call.value[4]
        IN /\ w >= 0 /\ h >= 0 =>
                 /\ ~call.out.raised /\ WellSized(Result)
                 /\ Result.w = w /\ Result.h = h
                 /\ \A p \in Pixels(w, h) :
                       Result.px[p] = IF Inside(call.img, x + p[1], y + p[2])
                                      THEN Source(x + p[1], y + p[2]) ELSE Clear
                 /\ (\A p \in Pixels(w, h) : ~Inside(call.img, x + p[1], y + p[2])) =>
                       \A p \in Pixels(w, h) : Result.px[p] = Clear
           /\ w < 0 \/ h < 0 => call.out.raised

C20_Witness ==
    /\ FilterReturned({"crop_box"})
    /\ call.img = Loaded(2, 3) /\ call.value = <<-1, 2, 3, 3>>
    /\ Result.w = 3 /\ Result.h = 3
    /\ Result.px[<<0, 0>>] = Clear
    /\ Result.px[<<1, 0>>] = <<1, 3>> /\ Result.px[<<2, 0>>] = <<2, 3>>
    /\ Result.px[<<1, 1>>] = Clear

----------------------------------------------------------------------------
(* Reference definitions for the order of substitution.                    *)
(* chars read from place i on: where tok stands it is replaced by new and  *)
(* reading goes on behind it, any other character is copied                *)
RECURSIVE ScanFrom(_, _, _, _)
ScanFrom(chars, i, tok, new) ==
    IF i > Len(chars) THEN <<>>
    ELSE IF i + Len(tok) - 1 <= Len(chars) /\ SubSeq(chars, i, i + Len(tok) - 1) = tok
    THEN new \o ScanFrom(chars, i + Len(tok), tok, new)
    ELSE <<chars[i]>> \o ScanFrom(chars, i + 1, tok, new)

(* the string after the first j columns of the row have had their turn *)
RECURSIVE AfterColumns(_)
AfterColumns(j) ==
    IF j = 0 THEN Given.s
    ELSE ScanFrom(AfterColumns(j - 1), 1, Token(Column(j)), str(Raw(j)))

(* C30: substring substitution takes the row's columns one at a time in    *)
(* the row's order, each step replacing all occurrences of that column's   *)
(* token in the string the previous step left.  So a value put in for an   *)
(* earlier column that holds a later column's token is expanded by the     *)
(* later column ("Q%a%" against {a: "%b%", b: -3} is "Q-3"), and an        *)
(* earlier column's token brought in by a later column's value stays       *)
(* ("Q%b%" against {a: 5, b: "%a%"} is "Q%a%").                            *)
C30_SubstitutionFollowsColumnOrder ==
    MacroReturned /\ Given.k = "str" /\ ExactColumns(Given.s) = {} =>
        /\ call.out = S(AfterColumns(Len(GivenRow)))
        /\ Given = S(<<"Q", "%", "a", "%">>)
              /\ GivenRow = << <<(<<"a">>), S(<<"%", "b", "%">>)>>, <<(<<"b">>), I(-3)>> >> =>
              call.out = S(<<"Q", "-", "3">>)
        /\ Given = S(<<"Q", "%", "b", "%">>)
              /\ GivenRow = << <<(<<"a">>), I(5)>>, <<(<<"b">>), S(<<"%", "a", "%">>)>> >> =>
              call.out = S(<<"Q", "%", "a", "%">>)
        /\ Given = S(<<"%", "%", "b", "%", "%", "a", "%">>)
              /\ GivenRow = << <<(<<"b">>), S(<<"a">>)>>, <<(<<"a">>), I(12)>> >> =>
              call.out = S(<<"1", "2", "a", "%">>)

C30_Witness ==
    /\ MacroReturned
    /\ Given = S(<<"%", "b", "%", "Q", "%", "a", "%">>)
    /\ GivenRow = << <<(<<"a">>), S(<<"%", "b", "%">>)>>, <<(<<"b">>), I(-3)>> >>
    /\ call.out = S(<<"-", "3", "Q", "-", "3">>)

----------------------------------------------------------------------------
(* C26: during one build_deck call the specification document is read and  *)
(* parsed exactly once, also when several workers reach the cached         *)
(* specification at the same time.  For a document that parses: never more *)
(* than one parse, and one parse behind every build over a table that has  *)
(* returned.                                                               *)
C26_SpecParsedOnce ==
    deck.specOk =>
        /\ deck.parses <= 1
        /\ deck.pc = "returned" /\ deck.csv = "ok" => deck.parses = 1

----------------------------------------------------------------------------
(* Reference definitions for a filters mapping.                            *)
PipeReturned == call.op = "apply_filters" /\ call.pc = "returned"

(* an item that names a defined filter and, for a flip, a direction *)
Effective(item) ==
    /\ item.name \in {"crop", "crop_top", "crop_bottom", "crop_left", "crop_right",
                      "crop_box", "resize", "rotate", "flip"}
    /\ item.name = "flip" => item.value.word \in {"horizontal", "vertical"}

EffectiveItems(filters) == SelectSeq(filters, Effective)

(* C21: a filter whose name is not a defined filter leaves the image as it *)
(* is and raises nothing, and the other filters of the mapping are applied *)
(* all the same; a flip whose value is neither horizontal nor vertical     *)
(* leaves the image as it is too.  So a mapping of such items only returns *)
(* the image it was given, and any mapping gives what it gives with those  *)
(* items taken out.                                                        *)
C21_UnknownFiltersPassThrough ==
    PipeReturned =>
        /\ EffectiveItems(call.filters) = <<>> => call.out = Returned(call.img)
        /\ call.out = apply_filters(call.pillow, call.img, EffectiveItems(call.filters))
        /\ call.img = Loaded(3, 2)
              /\ call.filters = <<FilterItem("sepia", "n", 3), FilterItem("crop_left", "n", 1),
                                  FilterItem("flip", "word", "diagonal")>>
              => /\ ~call.out.raised
                 /\ call.out.img.w = 2 /\ call.out.img.h = 2
                 /\ call.out.img.px[<<0, 0>>] = <<2, 1>>

C21_Witness ==
    /\ PipeReturned
    /\ call.img = Loaded(3, 2)
    /\ call.filters = <<FilterItem("sepia", "n", 3), FilterItem("crop_left", "n", 1),
                        FilterItem("flip", "word", "diagonal")>>
    /\ ~call.out.raised
    /\ call.out.img = [w |-> 2, h |-> 2,
                       px |-> [p \in Pixels(2, 2) |-> <<p[1] + 2, p[2] + 1>>]]

(* C25: opacity is one of the defined image filters: applied to an image   *)
(* it raises nothing and returns an image of the same size whose           *)
(* transparency, and so some pixel, is not the given one's; it is not      *)
(* passed through as a name without a filter.                              *)
C25_OpacityIsAFilter ==
    PipeReturned /\ call.filters = <<FilterItem("opacity", "n", 50)>> =>
        /\ ~call.out.raised
        /\ call.out.img.w = call.img.w /\ call.out.img.h = call.img.h
        /\ call.out.img # call.img

----------------------------------------------------------------------------
(* Reference definitions for the filters of an image element.              *)
FiltersOf(e) == IF Has(e, "filters") THEN e.filters ELSE <<>>

(* f_n(...f_1(image)...): the n-th filter applied to what the n - 1 before *)
(* it made of the opened image                                             *)
RECURSIVE Composed(_, _, _)
Composed(path, filters, n) ==
    IF n = 0 THEN Returned(Loaded(ImageFiles[path][1], ImageFiles[path][2]))
    ELSE LET before == Composed(path, filters, n - 1)
         IN IF before.raised THEN before
            ELSE apply_filter(InstalledPillow, before.img, filters[n].name, value_of(filters[n]))

(* C22: the filters of an image element are applied one after another in   *)
(* the order of the mapping, each to the result of the one before, and all *)
(* of them before the element is positioned: the pasted image is           *)
(* f_n(...f_1(image)), the recorded box is (x, y, x + w, y + h) with the   *)
(* width and height of that image, and the own anchor's point of that box  *)
(* lies on the element's absolute position.                                *)
C22_FiltersInOrderBeforePositioning ==
    \A i \in DOMAIN cards[1].trace :
        D(i).type = "image" /\ Has(D(i), "path") /\ D(i).path \in DOMAIN ImageFiles =>
            LET final == Composed(D(i).path, FiltersOf(D(i)), Len(FiltersOf(D(i))))
                t == cards[1].trace[i]
            IN /\ final.raised => t.status = "raised" /\ ~DrawnOn(1, i)
               /\ t.status = "drawn" =>
                     /\ ~final.raised
                     /\ t.img = final.img
                     /\ BoxOf(1, i)[3] = BoxOf(1, i)[1] + final.img.w
                     /\ BoxOf(1, i)[4] = BoxOf(1, i)[2] + final.img.h
                     /\ IF Has(D(i), "anchor")
                        THEN AnchorPoint(BoxOf(1, i), D(i).anchor) = ExpectedAbs(1, i)
                        ELSE <<BoxOf(1, i)[1], BoxOf(1, i)[2]>> = ExpectedAbs(1, i)
                     /\ i = Len(cards[1].trace) /\ Has(D(i), "id") =>
                           cards[1].element_positions[D(i).id] = BoxOf(1, i)

C22_Witness ==
    /\ Len(cards[1].trace) = 2
    /\ D(1).type = "image" /\ Has(D(1), "anchor") /\ D(1).anchor = "center"
    /\ D(1).filters = <<FilterItem("crop_top", "n", 1), FilterItem("rotate", "n", 90)>>
    /\ cards[1].trace[1].status = "drawn"
    /\ cards[1].trace[1].img.w = 4 /\ cards[1].trace[1].img.h = 7
    /\ cards[1].trace[1].img.px[<<0, 0>>] = <<7, 2>>
    /\ BoxOf(1, 1) = <<18, 27, 22, 34>>
    /\ cards[1].trace[2].status = "drawn"
    /\ cards[1].trace[2].abs = <<27, 39>>

----------------------------------------------------------------------------
(* C23: an image element whose file does not exist is skipped without      *)
(* aborting the card: no exception leaves the draw method, the error is    *)
(* logged, nothing is drawn and no box is recorded under its id, so that   *)
(* an element referring to that id fails with the not-found error; and the *)
(* elements after it are processed as ever.                                *)
MissingImage(e) ==
    Has(e, "type") /\ e.type = "image" /\ Has(e, "path") /\ e.path \notin DOMAIN ImageFiles

C23_MissingImageIsSkipped ==
    \A i \in DOMAIN cards[1].trace :
        MissingImage(D(i)) =>
            /\ cards[1].trace[i].status = "no_file"
            /\ ~DrawnOn(1, i)
            /\ \E l \in log : l.what = "Image not found" /\ l.card = 1
            /\ cards[1].pc = "raised" => cards[1].saveCalls = 1
            /\ i = Len(cards[1].trace) /\ Has(D(i), "id") /\ D(i).id \notin KnownBefore(1, i)
                  => D(i).id \notin DOMAIN cards[1].element_positions
            /\ \A j \in DOMAIN cards[1].trace :
                  /\ j > i /\ Has(D(j), "relative_to") /\ Has(D(i), "id")
                  /\ D(j).relative_to[1] = D(i).id
                  /\ EarlierDrawn(1, j, D(i).id) = {} /\ D(i).id \notin CardIds
                  /\ HasRequired(D(j))
                  => /\ cards[1].trace[j].status = "raised"
                     /\ cards[1].trace[j].msg = NotFoundMsg
            /\ RenderOver(1) =>
                  /\ Len(cards[1].trace) = NElems
                  /\ \A j \in (i + 1)..NElems : Drawable(j) => DrawnOn(1, j)

C23_Witness ==
    /\ cards[1].pc = "saved"
    /\ NElems = 3
    /\ MissingImage(D(1)) /\ D(1).id = "b"
    /\ cards[1].trace[1].status = "no_file"
    /\ D(2).type = "text" /\ D(2).relative_to[1] = "b"
    /\ cards[1].trace[2].msg = NotFoundMsg
    /\ DrawnOn(1, 3)
    /\ "b" \notin DOMAIN cards[1].element_positions

----------------------------------------------------------------------------
(* C27: at every point of a card's render the keys of the registry are the *)
(* card's own id, if the specification has one, and the ids of the         *)
(* elements drawn so far; entries are never removed and an element without *)
(* an id adds none.  Under an id stands the box of the last element drawn  *)
(* with it, and under the card's id, while no element with that id has     *)
(* been drawn, (0, 0, width, height).                                      *)
DrawnSoFar(c) ==
    {j \in DOMAIN cards[c].trace : cards[c].trace[j].status = "drawn" /\ Has(D(j), "id")}

C27_RegistryKeys ==
    cards[1].pc # "idle" =>
        /\ DOMAIN cards[1].element_positions = CardIds \cup {D(j).id : j \in DrawnSoFar(1)}
        /\ \A id \in DOMAIN cards[1].element_positions :
              LET js == {j \in DrawnSoFar(1) : D(j).id = id}
              IN cards[1].element_positions[id] =
                    IF js # {} THEN BoxOf(1, Max(js))
                    ELSE <<0, 0, cards[1].size[1], cards[1].size[2]>>

C27_Witness ==
    /\ cards[1].pc = "rendering"
    /\ Len(cards[1].trace) = 3
    /\ D(1).type = "rectangle" /\ D(1).id = "card" /\ D(3).type = "text" /\ D(3).id = "card"
    /\ ~Has(D(2), "id")
    /\ \A j \in 1..3 : cards[1].trace[j].status = "drawn"
    /\ DOMAIN cards[1].element_positions = {"card"}
    /\ cards[1].element_positions["card"] = BoxOf(1, 3)
    /\ cards[1].element_positions["card"] # BoxOf(1, 1)

----------------------------------------------------------------------------
(* C29: drawing an element is all-or-nothing for the card's state: a step  *)
(* of the render in which the element's draw method raises (unknown        *)
(* relative_to id, unknown anchor, missing required field, a filter that   *)
(* raises) leaves the canvas and the registry exactly as they were before  *)
(* the element.                                                            *)
FailedStep(c) ==
    /\ Len(cards'[c].trace) = Len(cards[c].trace) + 1
    /\ cards'[c].trace[Len(cards'[c].trace)].status = "raised"

C29_Step ==
    \A c \in {1, 2} :
        FailedStep(c) =>
            /\ cards'[c].card = cards[c].card
            /\ cards'[c].element_positions = cards[c].element_positions

C29_FailedDrawLeavesNoTrace == [][C29_Step]_vars

C29_Witness ==
    /\ Len(cards[1].trace) = 3
    /\ cards[1].trace[1].status = "drawn"
    /\ cards[1].trace[2].status = "raised"
    /\ cards[1].trace[2].msg = "ValueError: Unknown anchor"
    /\ cards[1].trace[3].status = "raised"
    /\ cards[1].trace[3].msg = NotFoundMsg
    /\ Len(cards[1].card) = 1
    /\ DOMAIN cards[1].element_positions = {"card", D(1).id}

----------------------------------------------------------------------------
(* C24: a text element is never drawn directly onto the canvas: whatever   *)
(* text is on a card's canvas came there as a fresh transparent layer of   *)
(* the canvas size, alpha-composited over what was drawn before.           *)
C24_TextIsComposited ==
    \A c \in {1, 2} : \A k \in DOMAIN cards[c].card :
        cards[c].card[k].kind = "text" => cards[c].card[k].how = "composite"

----------------------------------------------------------------------------
(* Reference definitions for wrapped text.                                 *)
WrapReturned == call.op = "get_wrapped_text" /\ call.pc = "returned"
Paragraphs == split_newline(call.text)
OutLines == split_newline(call.out)

(* the words of a line joined by single blanks *)
RECURSIVE SpaceJoined(_)
SpaceJoined(words) ==
    IF words = <<>> THEN <<>>
    ELSE IF Len(words) = 1 THEN words[1]
    ELSE words[1] \o <<" ">> \o SpaceJoined(Tail(words))

WordsKept == split_words(call.out) = split_words(call.text)

LinesFit ==
    \A l \in DOMAIN OutLines :
        /\ OutLines[l] = SpaceJoined(split_words(OutLines[l]))
        /\ Len(split_words(OutLines[l])) >= 2 => getlength(OutLines[l]) <= call.line_length

(* in a text of one paragraph a line ends only where the next word would   *)
(* not fit                                                                 *)
Greedy ==
    Len(Paragraphs) = 1 =>
        \A l \in 1..(Len(OutLines) - 1) :
            OutLines[l] # <<>> =>
                getlength(OutLines[l] \o <<" ">> \o split_words(OutLines[l + 1])[1])
                    > call.line_length

(* where every paragraph has a word, no output line is empty *)
NoEmptyLine ==
    (\A p \in DOMAIN Paragraphs : split_words(Paragraphs[p]) # <<>>) =>
        \A l \in DOMAIN OutLines : OutLines[l] # <<>>

(* C28: get_wrapped_text wraps each paragraph by itself and greedily: the  *)
(* words appear in the output in their order, none split or dropped; a     *)
(* word goes on the current line exactly when the space-joined line stays  *)
(* within the limit and starts a new line otherwise; every output line of  *)
(* two or more words fits the limit; and a paragraph that is not empty     *)
(* never yields an empty output line.                                      *)
C28_GreedyWrap ==
    WrapReturned => WordsKept /\ LinesFit /\ Greedy /\ NoEmptyLine

====
